---- MODULE Spec2Model ----
(***************************************************************************)
(* Media permanence pipeline of the order-messaging backend:               *)
(*   - GET /api/proxy-fb-media        (src/src/routes/mediaRoutes.js)      *)
(*   - fetchMediaContentForForwarding (src/unnamed/part_007, apiUtils)     *)
(* A JavaScript string is a sequence of one-character strings; a MIME type *)
(* is the sequence of its '/'-separated parts; a missing (undefined) value *)
(* is Absent, UndefinedUrl or the string "undefined".                      *)
(***************************************************************************)
EXTENDS Integers, Sequences, FiniteSets, TLC

(***************************************************************************)
(* Bounds of the model.                                                    *)
(***************************************************************************)
\* a client hostname is a concatenation of at most MaxHostParts pieces
MaxHostParts == 3
\* body chunks piped from the upstream before the stream ends or fails
MaxChunks == 2
\* rows the messages table grows to
MaxMessages == 3
\* the last millisecond of the clock, and the largest random suffix
MaxClock == 1
MaxRandom == 1
\* upload requests over the life of the server
MaxUploads == 2

(***************************************************************************)
(* Character strings.                                                      *)
(***************************************************************************)
Dot == <<".">>
S_evil == <<"e","v","i","l">>
S_com == <<"c","o","m">>
S_cdn == <<"c","d","n">>
H_lookaside == <<"l","o","o","k","a","s","i","d","e",".","f","b","s","b","x",".","c","o","m">>
H_scontent == <<"s","c","o","n","t","e","n","t",".","w","h","a","t","s","a","p","p",".","n","e","t">>
H_mmg == <<"m","m","g",".","w","h","a","t","s","a","p","p",".","n","e","t">>
H_pps == <<"p","p","s",".","w","h","a","t","s","a","p","p",".","n","e","t">>
H_evil == S_evil \o Dot \o S_com

\* String.prototype.endsWith(search)
EndsWith(s, search) ==
    /\ Len(search) <= Len(s)
    /\ SubSeq(s, Len(s) - Len(search) + 1, Len(s)) = search

(***************************************************************************)
(* Domain validation of the proxy endpoint.                                *)
(***************************************************************************)
allowedDomains == {H_lookaside, H_scontent, H_mmg, H_pps}

\* Faulty variant: the suffix match without the separating '.'.
isValidDomainNoDot(hostname) ==
    \E domain \in allowedDomains :
        hostname = domain \/ EndsWith(hostname, domain)

isValidDomain(hostname) ==
    \E domain \in allowedDomains :
        hostname = domain \/ EndsWith(hostname, Dot \o domain)

(***************************************************************************)
(* URL values.  kind: "undefined" (no value), "text" (a string that        *)
(* new URL() cannot parse), "url" (an absolute URL with hostname host).    *)
(* pct: "none" (no '%'), "escaped" (well-formed %XX sequences in the path  *)
(* or query, which leave the hostname as it is), "malformed" (a '%' not    *)
(* followed by two hex digits), "decoded" (the text after the handler's    *)
(* decodeURIComponent decoded its %XX sequences once more than the query   *)
(* parser did).                                                            *)
(***************************************************************************)
\* file: the stored file a URL of this service names (NoFile for any other URL)
NoFile == [prefix |-> "", ext |-> <<>>]
UndefinedUrl == [kind |-> "undefined", host |-> <<>>, pct |-> "none", file |-> NoFile]
TextUndefined == [kind |-> "text", host |-> <<>>, pct |-> "none", file |-> NoFile]
TextMalformed == [kind |-> "text", host |-> <<>>, pct |-> "malformed", file |-> NoFile]
Url(h, p) == [kind |-> "url", host |-> h, pct |-> p, file |-> NoFile]

\* template-literal / encodeURIComponent coercion of a value to a string
ToStr(u) == IF u.kind = "undefined" THEN TextUndefined ELSE u

\* decodeURIComponent: throws URIError on a malformed escape
DecodeThrows(u) == u.pct = "malformed"
decodeURIComponent(u) == IF u.pct = "escaped" THEN [u EXCEPT !.pct = "decoded"] ELSE u

RECURSIVE HostsOfParts(_)
HostPieces == {Dot, S_evil, S_com} \cup allowedDomains
HostsOfParts(n) ==
    IF n = 0 THEN {<<>>}
    ELSE LET shorter == HostsOfParts(n - 1)
         IN shorter \cup {p \o h : p \in HostPieces, h \in shorter}
ClientHosts == HostsOfParts(MaxHostParts) \ {<<>>}
SampleHosts == {H_scontent, S_cdn \o Dot \o H_mmg, H_evil, S_evil \o H_pps}
PctKinds == {"none", "escaped", "malformed"}

\* values of req.query.url a client can send
ClientUrls ==
    {UndefinedUrl, TextUndefined, TextMalformed}
    \cup {Url(h, "none") : h \in ClientHosts}
    \cup {Url(h, p) : h \in SampleHosts, p \in PctKinds}
\* values of the url field of a provider media-details answer
ProviderUrls == {UndefinedUrl} \cup {Url(h, p) : h \in SampleHosts, p \in PctKinds}


(***************************************************************************)
(* MIME types and HTTP values.                                             *)
(***************************************************************************)
M_json == <<"application", "json">>
M_octet == <<"application", "octet-stream">>
M_jpeg == <<"image", "jpeg">>
M_pdf == <<"application", "pdf">>
\* a header or field that is absent
Absent == <<>>

\* Response.ok of node-fetch: status in the range 200-299
ResponseOk(status) == status >= 200 /\ status <= 299

\* statuses an upstream media host answers with
UpstreamStatuses == {200, 206, 304, 404, 500}
\* Content-Type headers of an upstream answer (Absent: no header)
UpstreamTypes == {M_jpeg, Absent}
\* error.code of a rejected upstream fetch ("NONE": an error with no code)
FetchErrorCodes == {"ENOTFOUND", "ECONNREFUSED", "ECONNRESET", "ETIMEDOUT", "EAI_AGAIN", "NONE"}

VARIABLES
    \* ---- GET /api/proxy-fb-media, one request at a time ----
    ppc,            \* "idle" | "fetching" | "streaming" | "stalled" | "done"
    preq,           \* [origin, url]: who asked, and req.query.url
    resp,           \* the express response object res
    timer,          \* the 30 s timer: "unset" | "armed" | "cleared" | "fired"
    upstreamReqs,   \* outbound requests issued by the handler, in order
    upstream,       \* what the upstream did: [kind, status, ctype, code]
    \* ---- fetchMediaContentForForwarding, one call at a time ----
    opc,            \* "idle" | "lookup" | "proxy" | "upload" | "fallback" | "returned" | "thrown"
    lookups,        \* outcomes of the getMediaDetails calls of this call, in order
    calls,          \* invocations per step: [lookup, proxy, upload]
    proxyResp,      \* the proxy response fetchProxiedMedia saw
    uploadReq,      \* what uploadMedia posted: [mimeType, fileExtension, blobType]
    uploadRes,      \* the upload answer uploadMedia returned: [ok, permanentUrl]
    error,          \* the error caught by the outer catch
    result,         \* the value returned
    thrown,         \* the error thrown to the caller
    \* ---- forwardMessage, one call at a time, and the messages table ----
    fpc,            \* "idle" | "media" | "send" | "save" | "returned" | "thrown"
    fargs,          \* [message, targetOrderId, recipientPhone, senderType]
    messageContent, \* the text being composed: [text, sep, note, type, url, id]
    whatsappResult, \* the external send of this call: [issued, ok, text]
    messages,       \* rows of the messages table; message_id is the row's index
    forwardResult,  \* the value forwardMessage returned
    forwardThrown,  \* the error forwardMessage threw
    \* ---- POST /api/media/upload, GET /uploads/media/:filename and the files ----
    now,            \* Date.now()
    uploads,        \* the upload requests, by slot: [pc, file, type, filename, res]
    disk,           \* the files below process.cwd(): path -> [data, complete, writes]
    spc,            \* "idle" | "streaming" | "stalled" | "done"
    sreq,           \* req.params.filename of the serve request, as path segments
    sres,           \* the response of the serve request, and the path it opened
    \* ---- the log written by the API helpers, one call at a time ----
    lpc,            \* "idle" | "started" | "fetching"
    lcall,          \* [fn, arg]: the helper running and its identifier argument
    logLevel,       \* process.env.LOG_LEVEL || 'info'
    log,            \* the records written: [level, function, message, values]
    lcount,         \* helper calls made so far
    \* ---- the workers and worker_phones tables and the worker controller ----
    workers,        \* ids of the rows of workers
    workerPhones,   \* rows of worker_phones: [phone_number, worker_id, is_primary]
    workerSeq,      \* the AUTO_INCREMENT counter of workers.id
    wres,           \* the last answer of the controller: [op, status, workerId, phoneNumber]
    wreqs,          \* deleteWorkerPhone requests in flight, by slot
    \* ---- the server process: startup, runMigrations, listening ----
    mpc,            \* "down" | "connecting" | "running" | "finished" | "failed"
    mrun,           \* process starts so far
    mfiles,         \* the files of the migrations directory: [name, ext]
    applied,        \* rows of the migrations table: [name, run]
    mnames,         \* appliedMigrationNames of this run
    mlist,          \* migrationFiles of this run
    mpos,           \* index in mlist of the file the loop is at
    mstmt,          \* statements of that file executed so far
    executed,       \* every statement executed, in order: [run, name, stmt]
    failedAt,       \* the file whose migration failed in this run, <<>> when none
    listening,      \* app.listen was called in this process
    served          \* API requests this process handled

proxyVars == <<ppc, preq, resp, timer, upstreamReqs, upstream>>
orchVars == <<opc, lookups, calls, proxyResp, uploadReq, uploadRes, error, result, thrown>>
fwdVars == <<fpc, fargs, messageContent, whatsappResult, messages, forwardResult,
             forwardThrown>>
fileVars == <<now, uploads, disk, spc, sreq, sres>>
logVars == <<lpc, lcall, logLevel, log, lcount>>
workerVars == <<workers, workerPhones, workerSeq, wres, wreqs>>
migVars == <<mpc, mrun, mfiles, applied, mnames, mlist, mpos, mstmt, executed, failedAt,
            listening, served>>
sysVars == <<logVars, workerVars, migVars>>
mediaVars == <<proxyVars, orchVars, fwdVars, fileVars>>
vars == <<ppc, preq, resp, timer, upstreamReqs, upstream,
          opc, lookups, calls, proxyResp, uploadReq, uploadRes, error, result, thrown,
          fpc, fargs, messageContent, whatsappResult, messages, forwardResult,
          forwardThrown, now, uploads, disk, spc, sreq, sres,
          lpc, lcall, logLevel, log, lcount,
          workers, workerPhones, workerSeq, wres, wreqs,
          mpc, mrun, mfiles, applied, mnames, mlist, mpos, mstmt, executed, failedAt,
          listening, served>>


(***************************************************************************)
(* GET /api/proxy-fb-media                                                 *)
(***************************************************************************)
\* res before the handler touched it (statusCode defaults to 200); details: the
\* upstream status quoted in the body; bytes: body chunks piped to the client
FreshRes ==
    [status |-> 200, code |-> "", ctype |-> Absent, cache |-> "",
     details |-> 0, bytes |-> 0, headersSent |-> FALSE, ended |-> FALSE]

\* res.status(s).json({..., code: c})
JsonError(res, s, c) ==
    [res EXCEPT !.status = s, !.code = c, !.ctype = M_json,
                !.headersSent = TRUE, !.ended = TRUE]

NoRequest == [origin |-> "none", url |-> UndefinedUrl]
NoUpstream == [kind |-> "none", status |-> 0, ctype |-> Absent, code |-> ""]

\* Steps 1-3 of the handler: the verdict on req.query.url.
\* "INVALID_URL": new URL(decodedUrl) throws a TypeError, caught by the outer catch
ValidateUrl(url) ==
    IF url.kind = "undefined" THEN "MISSING_URL_PARAMETER"
    ELSE IF DecodeThrows(url) THEN "INVALID_URL_ENCODING"
    ELSE IF decodeURIComponent(url).kind # "url" THEN "INVALID_URL"
    ELSE IF ~isValidDomain(decodeURIComponent(url).host) THEN "UNAUTHORIZED_DOMAIN"
    ELSE "PASS"

\* Faulty variant: the upstream request is issued before the verdict is looked at.
FetchIssuedAlways(verdict) == verdict \in {"PASS", "UNAUTHORIZED_DOMAIN"}

\* the handler reaches step 5 (the upstream fetch) only past every early return
FetchIssued(verdict) == verdict = "PASS"

\* The outer catch block's answer to an error thrown in the try block.
CatchResponse(res, name, code) ==
    IF name = "AbortError" THEN JsonError(res, 408, "REQUEST_TIMEOUT")
    ELSE IF code = "ENOTFOUND" \/ code = "ECONNREFUSED"
         THEN JsonError(res, 502, "NETWORK_ERROR")
    ELSE IF ~res.headersSent THEN JsonError(res, 500, "INTERNAL_SERVER_ERROR")
    ELSE res

\* the response of an early return, or of the outer catch for new URL()'s TypeError
RejectResponse(verdict) ==
    CASE verdict = "MISSING_URL_PARAMETER" -> JsonError(FreshRes, 400, verdict)
      [] verdict = "INVALID_URL_ENCODING" -> JsonError(FreshRes, 400, verdict)
      [] verdict = "UNAUTHORIZED_DOMAIN" -> JsonError(FreshRes, 403, verdict)
      [] verdict = "INVALID_URL" -> CatchResponse(FreshRes, "TypeError", "ERR_INVALID_URL")
      [] OTHER -> FreshRes

\* The handler from its entry to its first await (or early return).
ProxyHandle(origin, url) ==
    LET verdict == ValidateUrl(url)
        decodedUrl == decodeURIComponent(url) IN
    /\ ppc = "idle"
    /\ preq' = [origin |-> origin, url |-> url]
    /\ upstream' = NoUpstream
    /\ upstreamReqs' = IF FetchIssued(verdict)
                       THEN <<[url |-> decodedUrl, bearer |-> TRUE]>>
                       ELSE <<>>
    /\ IF verdict = "PASS"
       THEN /\ ppc' = "fetching"
            /\ timer' = "armed"
            /\ resp' = FreshRes
       ELSE /\ ppc' = "done"
            /\ timer' = "unset"
            /\ resp' = RejectResponse(verdict)

\* a client of the API calls the endpoint
ClientRequest ==
    /\ \E url \in ClientUrls : ProxyHandle("client", url)
    /\ UNCHANGED orchVars
    /\ UNCHANGED <<fwdVars, fileVars, sysVars>>

\* Faulty variant: the timer is left running once the upstream has answered.
TimerAfterHeadersKept(t) == t

\* clearTimeout(timeoutId) after the awaited fetch resolved
TimerAfterHeaders(t) == "cleared"

\* fetch resolves: the upstream's status line and headers arrived (steps 6-9)
UpstreamHeaders ==
    /\ ppc = "fetching"
    /\ \E status \in UpstreamStatuses, ctype \in UpstreamTypes :
        /\ upstream' = [kind |-> "headers", status |-> status, ctype |-> ctype, code |-> ""]
        /\ timer' = TimerAfterHeaders(timer)
        /\ IF ~ResponseOk(status)
           THEN /\ resp' = [JsonError(resp, 502, "FACEBOOK_REQUEST_FAILED")
                               EXCEPT !.details = status]
                /\ ppc' = "done"
           ELSE /\ resp' = [resp EXCEPT
                               !.ctype = IF ctype = Absent THEN M_octet ELSE ctype,
                               !.cache = "public, max-age=3600"]
                /\ ppc' = "streaming"
    /\ UNCHANGED <<preq, upstreamReqs>>
    /\ UNCHANGED orchVars
    /\ UNCHANGED <<fwdVars, fileVars, sysVars>>

\* fetch rejects with a FetchError before any answer; the timer is not cleared
UpstreamError ==
    /\ ppc = "fetching"
    /\ \E code \in FetchErrorCodes :
        /\ upstream' = [kind |-> "error", status |-> 0, ctype |-> Absent, code |-> code]
        /\ resp' = CatchResponse(resp, "FetchError", code)
    /\ ppc' = "done"
    /\ UNCHANGED <<preq, timer, upstreamReqs>>
    /\ UNCHANGED orchVars
    /\ UNCHANGED <<fwdVars, fileVars, sysVars>>

\* the 30 s timer fires: controller.abort(); a pending fetch rejects with AbortError
TimerFire ==
    /\ timer = "armed"
    /\ timer' = "fired"
    /\ IF ppc = "fetching"
       THEN /\ upstream' = [kind |-> "abort", status |-> 0, ctype |-> Absent, code |-> ""]
            /\ resp' = CatchResponse(resp, "AbortError", "NONE")
            /\ ppc' = "done"
       ELSE UNCHANGED <<upstream, resp, ppc>>
    /\ UNCHANGED <<preq, upstreamReqs>>
    /\ UNCHANGED orchVars
    /\ UNCHANGED <<fwdVars, fileVars, sysVars>>

\* facebookResponse.body.pipe(res): a chunk is written, which sends the headers
BodyData ==
    /\ ppc = "streaming"
    /\ resp.bytes < MaxChunks
    /\ resp' = [resp EXCEPT !.headersSent = TRUE, !.bytes = @ + 1]
    /\ UNCHANGED <<ppc, preq, timer, upstreamReqs, upstream>>
    /\ UNCHANGED orchVars
    /\ UNCHANGED <<fwdVars, fileVars, sysVars>>

\* the upstream body ends: pipe ends res
BodyEnd ==
    /\ ppc = "streaming"
    /\ resp' = [resp EXCEPT !.headersSent = TRUE, !.ended = TRUE]
    /\ ppc' = "done"
    /\ UNCHANGED <<preq, timer, upstreamReqs, upstream>>
    /\ UNCHANGED orchVars
    /\ UNCHANGED <<fwdVars, fileVars, sysVars>>

\* the upstream body emits 'error': pipe stops; the handler answers only if no
\* header was sent yet, and otherwise leaves res as it is
BodyError ==
    /\ ppc = "streaming"
    /\ upstream' = [upstream EXCEPT !.kind = "bodyerror"]
    /\ IF ~resp.headersSent
       THEN /\ resp' = JsonError(resp, 500, "STREAM_ERROR")
            /\ ppc' = "done"
       ELSE /\ resp' = resp
            /\ ppc' = "stalled"
    /\ UNCHANGED <<preq, timer, upstreamReqs>>
    /\ UNCHANGED orchVars
    /\ UNCHANGED <<fwdVars, fileVars, sysVars>>

\* the client has its answer (or gave up on a stalled one): the request is over
ClientDone ==
    /\ ppc \in {"done", "stalled"}
    /\ preq.origin = "client"
    /\ ppc' = "idle"
    /\ preq' = NoRequest
    /\ resp' = FreshRes
    /\ timer' = "unset"
    /\ upstreamReqs' = <<>>
    /\ upstream' = NoUpstream
    /\ UNCHANGED orchVars
    /\ UNCHANGED <<fwdVars, fileVars, sysVars>>


(***************************************************************************)
(* fetchMediaContentForForwarding and the helpers it awaits                *)
(***************************************************************************)
\* CONFIG.API_ROOT, 'https://bsgold-api.chatloom.in': its host
H_api == <<"b","s","g","o","l","d","-","a","p","i",".","c","h","a","t","l","o","o","m",".","i","n">>

\* an Error object: the helper that threw it and which of its calls did
NoError == [fn |-> "none", seq |-> 0]
Err(fn, n) == [fn |-> fn, seq |-> n]

\* mime_type fields of a provider media-details answer (Absent: no field)
ProviderMimes == {M_jpeg, M_pdf, Absent}

\* getMediaDetails: the n-th call throws, or returns the provider's JSON
LookupFail(n) ==
    [ok |-> FALSE, url |-> UndefinedUrl, mime |-> Absent, err |-> Err("getMediaDetails", n)]
LookupOutcomes(n) ==
    {LookupFail(n)} \cup
    {[ok |-> TRUE, url |-> u, mime |-> m, err |-> NoError] :
        u \in ProviderUrls, m \in ProviderMimes}

\* extensionMap of step 3
extensionMap ==
    (<<"image", "jpeg">> :> <<".", "jpg">>) @@
    (<<"image", "png">> :> <<".", "png">>) @@
    (<<"image", "gif">> :> <<".", "gif">>) @@
    (<<"image", "webp">> :> <<".", "webp">>) @@
    (<<"video", "mp4">> :> <<".", "mp4">>) @@
    (<<"video", "quicktime">> :> <<".", "mov">>) @@
    (<<"audio", "mpeg">> :> <<".", "mp3">>) @@
    (<<"audio", "ogg">> :> <<".", "ogg">>) @@
    (<<"audio", "mp4">> :> <<".", "m4a">>)

\* mediaDetails.mime_type || 'application/octet-stream'
MimeOrDefault(mime) == IF mime = Absent THEN M_octet ELSE mime

\* Faulty variant: the table is not consulted.
FileExtensionSubtype(mimeType) ==
    <<".", IF Len(mimeType) >= 2 THEN mimeType[2] ELSE "undefined">>

\* extensionMap[mimeType] || `.${mimeType.split('/')[1]}`
FileExtension(mimeType) ==
    IF mimeType \in DOMAIN extensionMap THEN extensionMap[mimeType]
    ELSE <<".", IF Len(mimeType) >= 2 THEN mimeType[2] ELSE "undefined">>

\* the relative permanentUrl '/uploads/media/<filename>' of an upload answer
PermanentUrl(ext) ==
    [kind |-> "relative", host |-> <<>>, pct |-> "none",
     file |-> [prefix |-> "media-", ext |-> ext]]

\* `${CONFIG.API_ROOT}${permanentUrl}`
WithApiRoot(rel) == [rel EXCEPT !.kind = "url", !.host = H_api]

NoResult ==
    [url |-> UndefinedUrl, type |-> Absent, isPermanent |-> "undefined",
     isFallback |-> "undefined", filename |-> NoFile, size |-> 0]

\* Faulty variant: the relative path is returned without the API root.
PermanentResultRelative(permanentUrl, mimeType, fileExtension, size) ==
    [url |-> permanentUrl, type |-> mimeType, isPermanent |-> "true",
     isFallback |-> "undefined",
     filename |-> [prefix |-> "media_", ext |-> fileExtension], size |-> size]

\* step 5: the object literal returned by the primary flow (it has no isFallback)
PermanentResult(permanentUrl, mimeType, fileExtension, size) ==
    [url |-> WithApiRoot(permanentUrl), type |-> mimeType, isPermanent |-> "true",
     isFallback |-> "undefined",
     filename |-> [prefix |-> "media_", ext |-> fileExtension], size |-> size]

\* Faulty variant: the type is defaulted as in the primary flow.
FallbackResultDefaulted(mediaDetails) ==
    [url |-> mediaDetails.url, type |-> MimeOrDefault(mediaDetails.mime),
     isPermanent |-> "false", isFallback |-> "true", filename |-> NoFile, size |-> 0]

\* fallbackResult of the catch block
FallbackResult(mediaDetails) ==
    [url |-> mediaDetails.url, type |-> mediaDetails.mime,
     isPermanent |-> "false", isFallback |-> "true", filename |-> NoFile, size |-> 0]

\* Faulty variant: the proxy's answer is used whatever its status.
FetchProxiedFailsNever(res) == FALSE

\* fetchProxiedMedia: if (!response.ok) throw
FetchProxiedFails(res) == ~ResponseOk(res.status)

\* Faulty variant: only a failed upload is recovered from.
FallbackRecoversUploadOnly(outcome, err) == outcome.ok /\ err.fn = "uploadMedia"

\* the inner try returns iff the second getMediaDetails did not throw
FallbackRecovers(outcome, err) == outcome.ok

\* Faulty variant: the inner catch rethrows what it caught.
ThrownErrorInner(err, fallbackError) == fallbackError

\* throw error; // Throw original error
ThrownError(err, fallbackError) == err

\* Faulty variant: the catch block starts the primary flow again.
AfterCatchRetry == "lookup"

\* where the outer catch block continues: its inner try
AfterCatch == "fallback"

NoUpload == [mimeType |-> Absent, fileExtension |-> <<>>, blobType |-> Absent]
NoCalls == [lookup |-> 0, proxy |-> 0, upload |-> 0]
NoUploadRes == [ok |-> FALSE, permanentUrl |-> UndefinedUrl]

\* the outer catch (error): the fallback getMediaDetails is invoked
Catch(e) ==
    /\ error' = e
    /\ opc' = AfterCatch
    /\ calls' = [calls EXCEPT !.lookup = @ + 1]

\* the proxy request is over: its closure is gone
ProxyRelease ==
    /\ ppc' = "idle"
    /\ preq' = NoRequest
    /\ resp' = FreshRes
    /\ timer' = "unset"
    /\ upstreamReqs' = <<>>
    /\ upstream' = NoUpstream

\* fetchMediaContentForForwarding(mediaId) is called: step 1 is invoked
Call ==
    /\ opc = "idle"
    /\ ppc = "idle"
    /\ opc' = "lookup"
    /\ calls' = [NoCalls EXCEPT !.lookup = 1]
    /\ UNCHANGED <<lookups, proxyResp, uploadReq, uploadRes, error, result, thrown>>
    /\ UNCHANGED proxyVars
    /\ UNCHANGED <<fwdVars, fileVars, sysVars>>

\* step 1 settles; on success step 2 (fetchProxiedMedia) is invoked
LookupReturn ==
    /\ opc = "lookup"
    /\ \E outcome \in LookupOutcomes(Len(lookups) + 1) :
        /\ lookups' = Append(lookups, outcome)
        /\ IF outcome.ok
           THEN /\ opc' = "proxy"
                /\ calls' = [calls EXCEPT !.proxy = @ + 1]
                /\ UNCHANGED error
           ELSE Catch(outcome.err)
    /\ UNCHANGED <<proxyResp, uploadReq, uploadRes, result, thrown>>
    /\ UNCHANGED proxyVars
    /\ UNCHANGED <<fwdVars, fileVars, sysVars>>

\* the request of fetchProxiedMedia reaches the proxy endpoint; the query parser
\* undoes encodeURIComponent, so req.query.url is the string form of mediaDetails.url
FetchProxiedArrive ==
    /\ opc = "proxy"
    /\ ProxyHandle("orchestrator", ToStr(lookups[1].url))
    /\ UNCHANGED orchVars
    /\ UNCHANGED <<fwdVars, fileVars, sysVars>>

\* the proxy endpoint cannot be reached: fetch(proxyUrl) rejects
FetchProxiedUnreachable ==
    /\ opc = "proxy"
    /\ ppc = "idle"
    /\ Catch(Err("fetchProxiedMedia", 1))
    /\ UNCHANGED <<lookups, proxyResp, uploadReq, uploadRes, result, thrown>>
    /\ UNCHANGED proxyVars
    /\ UNCHANGED <<fwdVars, fileVars, sysVars>>

\* fetchProxiedMedia settles on the proxy's answer: it throws on a non-2xx status,
\* and otherwise returns the blob once the body is complete; then steps 3 and 4
FetchProxiedReturn ==
    /\ opc = "proxy"
    /\ preq.origin = "orchestrator"
    /\ resp.headersSent
    /\ FetchProxiedFails(resp) \/ resp.ended
    /\ proxyResp' = resp
    /\ IF FetchProxiedFails(resp)
       THEN /\ Catch(Err("fetchProxiedMedia", 1))
            /\ UNCHANGED uploadReq
       ELSE LET mimeType == MimeOrDefault(lookups[1].mime) IN
            /\ uploadReq' = [mimeType |-> mimeType,
                             fileExtension |-> FileExtension(mimeType),
                             blobType |-> resp.ctype]
            /\ opc' = "upload"
            /\ calls' = [calls EXCEPT !.upload = @ + 1]
            /\ UNCHANGED error
    /\ ProxyRelease
    /\ UNCHANGED <<lookups, uploadRes, result, thrown>>
    /\ UNCHANGED <<fwdVars, fileVars, sysVars>>

\* the connection to the proxy closes while the body is incomplete: blob() rejects
BlobAborted ==
    /\ opc = "proxy"
    /\ preq.origin = "orchestrator"
    /\ ppc \in {"streaming", "stalled"}
    /\ proxyResp' = resp
    /\ Catch(Err("fetchProxiedMedia", 1))
    /\ ProxyRelease
    /\ UNCHANGED <<lookups, uploadReq, uploadRes, result, thrown>>
    /\ UNCHANGED <<fwdVars, fileVars, sysVars>>

\* step 4 settles: uploadMedia returns the upload answer or throws
UploadReturn ==
    /\ opc = "upload"
    /\ \E ok \in BOOLEAN :
        IF ok
        THEN LET permanentUrl == PermanentUrl(uploadReq.fileExtension) IN
             /\ uploadRes' = [ok |-> TRUE, permanentUrl |-> permanentUrl]
             /\ result' = PermanentResult(permanentUrl, uploadReq.mimeType,
                                          uploadReq.fileExtension, proxyResp.bytes)
             /\ opc' = "returned"
             /\ UNCHANGED <<error, calls>>
        ELSE /\ Catch(Err("uploadMedia", 1))
             /\ UNCHANGED <<result, uploadRes>>
    /\ UNCHANGED <<lookups, proxyResp, uploadReq, thrown>>
    /\ UNCHANGED proxyVars
    /\ UNCHANGED <<fwdVars, fileVars, sysVars>>

\* the fallback getMediaDetails settles: return the provider URL or rethrow
FallbackReturn ==
    /\ opc = "fallback"
    /\ \E outcome \in LookupOutcomes(Len(lookups) + 1) :
        /\ lookups' = Append(lookups, outcome)
        /\ IF FallbackRecovers(outcome, error)
           THEN /\ result' = FallbackResult(outcome)
                /\ opc' = "returned"
                /\ UNCHANGED thrown
           ELSE /\ thrown' = ThrownError(error, outcome.err)
                /\ opc' = "thrown"
                /\ UNCHANGED result
    /\ UNCHANGED <<calls, proxyResp, uploadReq, uploadRes, error>>
    /\ UNCHANGED proxyVars
    /\ UNCHANGED <<fwdVars, fileVars, sysVars>>

\* the call is over: its locals are gone
OrchestratorRelease ==
    /\ opc' = "idle"
    /\ lookups' = <<>>
    /\ calls' = NoCalls
    /\ proxyResp' = FreshRes
    /\ uploadReq' = NoUpload
    /\ uploadRes' = NoUploadRes
    /\ error' = NoError
    /\ result' = NoResult
    /\ thrown' = NoError

\* the caller has the outcome; the next call starts from scratch
Finish ==
    /\ opc \in {"returned", "thrown"}
    /\ OrchestratorRelease
    /\ UNCHANGED proxyVars
    /\ UNCHANGED <<fwdVars, fileVars, sysVars>>

(***************************************************************************)
(* The messages table and POST /api/messages                               *)
(*                                                                         *)
(* A row is [message_id, order_id, content, media_id, sender_type,         *)
(* forwarded_from, original_message_id]; NULL is "" for a text column and  *)
(* 0 for original_message_id.  A content is [text, sep, note, type, url,   *)
(* id]: the text a sender wrote, then (after the separator) the annotation *)
(* forwardMessage appends, "[Media: <type>] <url>" for note "media" and    *)
(* "[Media processing failed - ID: <id>]" for note "failed".               *)
(***************************************************************************)
NoContent ==
    [text |-> "", sep |-> "", note |-> "none", type |-> Absent, url |-> UndefinedUrl,
     id |-> ""]
Plain(text) == [NoContent EXCEPT !.text = text]

\* the orders table (orders are not created or deleted here)
Orders == {"ORD1"}
OrderIds == {"ORD1", "ORD9"}

\* validSenderTypes of the controller
validSenderTypes == {"enterprise", "client", "worker"}

\* fk_original_message: original_message_id is NULL or the message_id of a row
ForeignKeyHolds(table, id) == id = 0 \/ id \in 1..Len(table)

\* the status saveMessage answers with: 400 on a missing field or an unknown
\* sender_type, 404 on an unknown order, 500 when the INSERT fails, 201 otherwise
saveMessageStatus(body, table) ==
    IF body.order_id = "" \/ body.content = NoContent \/ body.sender_type = "" THEN 400
    ELSE IF body.sender_type \notin validSenderTypes THEN 400
    ELSE IF body.order_id \notin Orders THEN 404
    ELSE IF ~ForeignKeyHolds(table, body.original_message_id) THEN 500
    ELSE 201

\* the INSERT: message_id is the AUTO_INCREMENT value
InsertMessage(table, body) ==
    Append(table,
        [message_id |-> Len(table) + 1, order_id |-> body.order_id,
         content |-> body.content, media_id |-> body.media_id,
         sender_type |-> body.sender_type, forwarded_from |-> body.forwarded_from,
         original_message_id |-> body.original_message_id])

\* request bodies clients of POST /api/messages send: text messages
ClientBodies ==
    {[order_id |-> o, content |-> c, media_id |-> "", sender_type |-> s,
      forwarded_from |-> f, original_message_id |-> i] :
        o \in OrderIds, c \in {Plain(""), Plain("hi")}, s \in {"client", "bogus"},
        f \in {"", "worker"}, i \in 0..MaxMessages}

\* POST /api/messages from a client of the API
SaveMessage ==
    /\ Len(messages) < MaxMessages
    /\ \E body \in ClientBodies :
        messages' = IF saveMessageStatus(body, messages) = 201
                    THEN InsertMessage(messages, body)
                    ELSE messages
    /\ UNCHANGED <<fpc, fargs, messageContent, whatsappResult, forwardResult,
                   forwardThrown>>
    /\ UNCHANGED <<proxyVars, orchVars, fileVars, sysVars>>


(***************************************************************************)
(* forwardMessage(message, targetOrderId, recipientPhone, senderType)      *)
(***************************************************************************)
Phone == "919876543210"
NoMessage ==
    [message_id |-> 0, order_id |-> "", content |-> NoContent, media_id |-> "",
     sender_type |-> "", forwarded_from |-> "", original_message_id |-> 0]
NoArgs ==
    [message |-> NoMessage, targetOrderId |-> "", recipientPhone |-> "",
     senderType |-> ""]
NoSend == [issued |-> FALSE, ok |-> FALSE, to |-> "", text |-> NoContent, orderId |-> ""]
NoForwarded ==
    [message_id |-> 0, order_id |-> "", content |-> NoContent, sender_type |-> "",
     forwarded_from |-> "", original_message_id |-> 0]
NoForwardResult ==
    [success |-> FALSE, originalMessage |-> NoMessage, forwardedMessage |-> NoForwarded,
     whatsappResult |-> NoSend]

\* `${mediaData.type}`: an absent type prints as 'undefined'
TemplateText(mime) == IF mime = Absent THEN <<"undefined">> ELSE mime

\* Faulty variant: the annotation carries the URL without the type.
mediaTextUrlOnly(mediaData) ==
    [NoContent EXCEPT !.note = "media", !.url = ToStr(mediaData.url)]

\* mediaText = `[Media: ${mediaData.type}] ${mediaData.url}`
mediaText(mediaData) ==
    [NoContent EXCEPT !.note = "media", !.type = TemplateText(mediaData.type),
                      !.url = ToStr(mediaData.url)]

\* mediaErrorText = `[Media processing failed - ID: ${message.media_id}]`
mediaErrorText(media_id) == [NoContent EXCEPT !.note = "failed", !.id = media_id]

\* message.content ? `${message.content}\n\n${annotation}` : annotation
WithAnnotation(content, annotation) ==
    IF content.text # ""
    THEN [annotation EXCEPT !.text = content.text, !.sep = "\n\n"]
    ELSE annotation

\* Faulty variant: a failed media resolution ends the forward.
AfterMediaErrorThrow == "thrown"

\* where the function continues after the inner catch (mediaError)
AfterMediaError == "send"

\* Faulty variant: the message is saved whatever the send did.
AfterSendAlways(ok) == "save"

\* sendWhatsAppMessage throws on a failed send, which ends the function
AfterSend(ok) == IF ok THEN "save" ELSE "thrown"

\* Faulty variant: forwarded_from names the forwarding actor.
messageDataOfActor(message, targetOrderId, senderType, content) ==
    [order_id |-> targetOrderId, content |-> content, media_id |-> "",
     sender_type |-> senderType, forwarded_from |-> senderType,
     original_message_id |-> message.message_id]

\* messageData, the body posted to /api/messages (it has no media_id)
messageData(message, targetOrderId, senderType, content) ==
    [order_id |-> targetOrderId, content |-> content, media_id |-> "",
     sender_type |-> senderType, forwarded_from |-> message.sender_type,
     original_message_id |-> message.message_id]

\* entry of the function: messageContent = message.content
ForwardStart(message, targetOrderId, senderType) ==
    /\ fpc = "idle"
    /\ fargs' = [message |-> message, targetOrderId |-> targetOrderId,
                 recipientPhone |-> Phone, senderType |-> senderType]
    /\ messageContent' = message.content
    /\ fpc' = IF message.media_id # "" THEN "media" ELSE "send"
    /\ UNCHANGED <<whatsappResult, messages, forwardResult, forwardThrown>>
    /\ UNCHANGED <<proxyVars, orchVars, fileVars, sysVars>>

\* message objects a caller holds: the stored original, as read at some time
ForwardableMessages ==
    {[message_id |-> 1, order_id |-> "ORD1", content |-> Plain(t), media_id |-> m,
      sender_type |-> "client", forwarded_from |-> "", original_message_id |-> 0] :
        t \in {"", "hi"}, m \in {"", "m1"}}
ForwardingActors == {"enterprise", "worker"}

\* a caller forwards a message object it holds
ForwardCall ==
    \E message \in ForwardableMessages, targetOrderId \in OrderIds,
       senderType \in ForwardingActors :
        ForwardStart(message, targetOrderId, senderType)

\* a caller forwards a row of the messages table
ForwardStored ==
    /\ Len(messages) < MaxMessages
    /\ \E i \in 1..Len(messages), targetOrderId \in OrderIds,
          senderType \in ForwardingActors :
        ForwardStart(messages[i], targetOrderId, senderType)

\* await fetchMediaContentForForwarding(message.media_id) is invoked
ForwardMedia ==
    /\ fpc = "media"
    /\ Call

\* the media resolution returned: the annotation is appended; its call is over
ForwardMediaReturn ==
    /\ fpc = "media"
    /\ opc = "returned"
    /\ messageContent' = WithAnnotation(fargs.message.content, mediaText(result))
    /\ fpc' = "send"
    /\ OrchestratorRelease
    /\ UNCHANGED <<fargs, whatsappResult, messages, forwardResult, forwardThrown>>
    /\ UNCHANGED <<proxyVars, fileVars, sysVars>>

\* the media resolution threw: catch (mediaError) appends the failure text
ForwardMediaFailed ==
    /\ fpc = "media"
    /\ opc = "thrown"
    /\ messageContent' = WithAnnotation(fargs.message.content,
                                        mediaErrorText(fargs.message.media_id))
    /\ fpc' = AfterMediaError
    /\ OrchestratorRelease
    /\ UNCHANGED <<fargs, whatsappResult, messages, forwardResult, forwardThrown>>
    /\ UNCHANGED <<proxyVars, fileVars, sysVars>>


\* await sendWhatsAppMessage(recipientPhone, messageContent, targetOrderId): the
\* provider accepts the message or the call throws
ForwardSend ==
    /\ fpc = "send"
    /\ \E ok \in BOOLEAN :
        /\ whatsappResult' = [issued |-> TRUE, ok |-> ok, to |-> fargs.recipientPhone,
                              text |-> messageContent, orderId |-> fargs.targetOrderId]
        /\ fpc' = AfterSend(ok)
        /\ forwardThrown' = IF ok THEN forwardThrown ELSE Err("sendWhatsAppMessage", 1)
    /\ UNCHANGED <<fargs, messageContent, messages, forwardResult>>
    /\ UNCHANGED <<proxyVars, orchVars, fileVars, sysVars>>

\* the object forwardMessage returns
ForwardSuccess(message, body, insertId, sendResult) ==
    [success |-> TRUE, originalMessage |-> message,
     forwardedMessage |->
        [message_id |-> insertId, order_id |-> body.order_id,
         content |-> body.content, sender_type |-> body.sender_type,
         forwarded_from |-> body.forwarded_from,
         original_message_id |-> body.original_message_id],
     whatsappResult |-> sendResult]

\* await saveMessage(messageData): POST /api/messages is handled by the
\* controller; saveMessage throws on a status that is not 2xx or when the API
\* cannot be reached
ForwardSave ==
    /\ fpc = "save"
    /\ \E reachable \in BOOLEAN :
        LET body == messageData(fargs.message, fargs.targetOrderId, fargs.senderType,
                                messageContent)
            status == saveMessageStatus(body, messages) IN
        IF reachable /\ ResponseOk(status)
        THEN /\ messages' = InsertMessage(messages, body)
             /\ forwardResult' = ForwardSuccess(fargs.message, body, Len(messages) + 1,
                                                whatsappResult)
             /\ fpc' = "returned"
             /\ UNCHANGED forwardThrown
        ELSE /\ forwardThrown' = Err("saveMessage", 1)
             /\ fpc' = "thrown"
             /\ UNCHANGED <<messages, forwardResult>>
    /\ UNCHANGED <<fargs, messageContent, whatsappResult>>
    /\ UNCHANGED <<proxyVars, orchVars, fileVars, sysVars>>

\* the caller has the outcome; the next call starts from scratch
ForwardDone ==
    /\ fpc \in {"returned", "thrown"}
    /\ fpc' = "idle"
    /\ fargs' = NoArgs
    /\ messageContent' = NoContent
    /\ whatsappResult' = NoSend
    /\ forwardResult' = NoForwardResult
    /\ forwardThrown' = NoError
    /\ UNCHANGED messages
    /\ UNCHANGED <<proxyVars, orchVars, fileVars, sysVars>>


(***************************************************************************)
(* Files below process.cwd()                                               *)
(*                                                                         *)
(* A path is a sequence of segments, relative to process.cwd(); a segment  *)
(* is a record [name, ts, rand, ext]: a stored media file is               *)
(* 'media-' + ts + '-' + rand + ext, any other segment has only a name     *)
(* (and an extension).  ext is the sequence of the dots and the texts      *)
(* between them, <<".", "jpg">> for ".jpg".                                *)
(***************************************************************************)
Seg(n) == [name |-> n, ts |-> 0, rand |-> 0, ext |-> <<>>]
DotDot == Seg("..")
ServerJs == [name |-> "server", ts |-> 0, rand |-> 0, ext |-> <<".", "js">>]

\* path.join(process.cwd(), 'uploads', 'media'), relative to process.cwd()
StorageRoot == <<Seg("uploads"), Seg("media")>>

\* path.join normalises its result: a '..' segment removes the segment before it
RECURSIVE Normalize(_, _)
Normalize(stack, rest) ==
    IF rest = <<>> THEN stack
    ELSE IF Head(rest) # DotDot THEN Normalize(Append(stack, Head(rest)), Tail(rest))
    ELSE IF stack # <<>> /\ stack[Len(stack)] # DotDot
         THEN Normalize(SubSeq(stack, 1, Len(stack) - 1), Tail(rest))
         ELSE Normalize(Append(stack, DotDot), Tail(rest))

\* path.join(process.cwd(), 'uploads', 'media', filename)
pathJoin(filename) == Normalize(<<>>, StorageRoot \o filename)

\* path.extname: from the last '.' of the last segment ('' when it has none)
extname(filename) ==
    LET e == filename[Len(filename)].ext
        dots == {i \in 1..Len(e) : e[i] = "."} IN
    IF dots = {} THEN <<>>
    ELSE SubSeq(e, CHOOSE i \in dots : \A j \in dots : j <= i, Len(e))

\* String.prototype.toLowerCase on an extension
toLowerCase(e) == [i \in 1..Len(e) |-> IF e[i] = "JPG" THEN "jpg" ELSE e[i]]

\* what the application directory holds besides the stored media
InitialDisk == (<<ServerJs>> :> [data |-> 0, complete |-> TRUE, writes |-> 1])

IsPrefix(p, q) == Len(p) <= Len(q) /\ SubSeq(q, 1, Len(p)) = p
\* fs.existsSync: the path names a file, or a directory on the way to one
existsSync(files, p) == \E q \in DOMAIN files : IsPrefix(p, q)
StoredPaths(files) == {p \in DOMAIN files : Len(p) = 3 /\ IsPrefix(StorageRoot, p)}


(***************************************************************************)
(* GET /uploads/media/:filename, one request at a time                     *)
(***************************************************************************)
M_png == <<"image", "png">>
M_gif == <<"image", "gif">>
M_webp == <<"image", "webp">>
M_mp4 == <<"video", "mp4">>
M_quicktime == <<"video", "quicktime">>
M_mpeg == <<"audio", "mpeg">>
M_audiomp4 == <<"audio", "mp4">>
M_ogg == <<"audio", "ogg">>

\* contentTypeMap of the serve handler
contentTypeMap ==
    (<<".", "jpg">> :> M_jpeg) @@
    (<<".", "jpeg">> :> M_jpeg) @@
    (<<".", "png">> :> M_png) @@
    (<<".", "gif">> :> M_gif) @@
    (<<".", "webp">> :> M_webp) @@
    (<<".", "mp4">> :> M_mp4) @@
    (<<".", "mov">> :> M_quicktime) @@
    (<<".", "mp3">> :> M_mpeg) @@
    (<<".", "m4a">> :> M_audiomp4) @@
    (<<".", "ogg">> :> M_ogg)

\* Faulty variant: every file is served as application/octet-stream.
ServeContentTypeDefault(filename) == M_octet

\* contentTypeMap[path.extname(filename).toLowerCase()] || 'application/octet-stream'
ServeContentType(filename) ==
    LET ext == toLowerCase(extname(filename)) IN
    IF ext \in DOMAIN contentTypeMap THEN contentTypeMap[ext] ELSE M_octet

NoServe == [res |-> FreshRes, opened |-> <<>>]

\* values of req.params.filename a client can send ('%2F' in the path segment
\* is decoded to '/'): a name that may be stored, names that are stored, and
\* names that climb out of the storage root
ServeParams(files) ==
    {<<[name |-> "media-", ts |-> 0, rand |-> 0, ext |-> <<".", "jpg">>]>>,
     <<DotDot>>, <<DotDot, DotDot, ServerJs>>}
    \cup {<<p[Len(p)]>> : p \in StoredPaths(files)}

\* the handler from its entry to fileStream.pipe(res)
ServeRequest ==
    /\ spc = "idle"
    /\ \E filename \in ServeParams(disk) :
        LET filePath == pathJoin(filename) IN
        /\ sreq' = filename
        /\ IF ~existsSync(disk, filePath)
           THEN /\ sres' = [res |-> JsonError(FreshRes, 404, "FILE_NOT_FOUND"),
                            opened |-> <<>>]
                /\ spc' = "done"
           ELSE /\ sres' = [res |-> [FreshRes EXCEPT
                                        !.ctype = ServeContentType(filename),
                                        !.cache = "public, max-age=31536000"],
                            opened |-> filePath]
                /\ spc' = "streaming"
    /\ UNCHANGED <<now, uploads, disk>>
    /\ UNCHANGED <<proxyVars, orchVars, fwdVars, sysVars>>

\* fileStream.pipe(res): a chunk is written, which sends the headers
FileData ==
    /\ spc = "streaming"
    /\ sres.opened \in DOMAIN disk
    /\ sres.res.bytes < MaxChunks
    /\ sres' = [sres EXCEPT !.res.headersSent = TRUE, !.res.bytes = @ + 1]
    /\ UNCHANGED <<now, uploads, disk, spc, sreq>>
    /\ UNCHANGED <<proxyVars, orchVars, fwdVars, sysVars>>

\* the file stream ends: pipe ends res
FileEnd ==
    /\ spc = "streaming"
    /\ sres.opened \in DOMAIN disk
    /\ sres' = [sres EXCEPT !.res.headersSent = TRUE, !.res.ended = TRUE]
    /\ spc' = "done"
    /\ UNCHANGED <<now, uploads, disk, sreq>>
    /\ UNCHANGED <<proxyVars, orchVars, fwdVars, sysVars>>

\* the file stream emits 'error' (a read fails, or the path is a directory): pipe
\* stops; the handler answers only if no header was sent yet, and otherwise
\* leaves res as it is
FileError ==
    /\ spc = "streaming"
    /\ IF ~sres.res.headersSent
       THEN /\ sres' = [sres EXCEPT !.res = JsonError(@, 500, "STREAM_ERROR")]
            /\ spc' = "done"
       ELSE /\ sres' = sres
            /\ spc' = "stalled"
    /\ UNCHANGED <<now, uploads, disk, sreq>>
    /\ UNCHANGED <<proxyVars, orchVars, fwdVars, sysVars>>

\* the client has its answer (or gave up on a stalled one): the request is over
ServeDone ==
    /\ spc \in {"done", "stalled"}
    /\ spc' = "idle"
    /\ sreq' = <<>>
    /\ sres' = NoServe
    /\ UNCHANGED <<now, uploads, disk>>
    /\ UNCHANGED <<proxyVars, orchVars, fwdVars, sysVars>>


(***************************************************************************)
(* POST /api/media/upload: upload.single('file') and the handler           *)
(***************************************************************************)
\* a request without a file part
NoPart ==
    [present |-> FALSE, originalname |-> Seg(""), mimetype |-> Absent, type |-> Absent]
NoOrigin == [by |-> "none", mime |-> Absent]
NoUploadAnswer == [status |-> 0, code |-> "", permanentUrl |-> <<>>]
IdleUpload ==
    [pc |-> "idle", file |-> NoPart, origin |-> NoOrigin, filename |-> Seg(""),
     res |-> NoUploadAnswer]

\* allowedMimeTypes of the fileFilter
allowedMimeTypes ==
    {M_jpeg, M_png, M_gif, M_webp, M_mp4, M_quicktime, M_mpeg, M_audiomp4, M_ogg,
     M_octet}

\* diskStorage filename: 'media-' + Date.now() + '-' + Math.round(Math.random() * 1E9)
\* + (path.extname(file.originalname) || '.bin')
StoredName(t, random, originalname) ==
    [name |-> "media-", ts |-> t, rand |-> random,
     ext |-> IF extname(<<originalname>>) = <<>> THEN <<".", "bin">>
             ELSE extname(<<originalname>>)]

\* multer's disk storage opens the destination for writing, whatever is there
OpenForWriting(files, path, u) ==
    (path :> [data |-> u, complete |-> FALSE,
              writes |-> IF path \in DOMAIN files THEN files[path].writes + 1 ELSE 1])
    @@ files

\* the request up to the first byte of the file: the handler alone when there is
\* no file part, next(err) when the filter refuses, a newly named file otherwise
UploadHandle(u, part, origin, random) ==
    /\ uploads[u].pc = "idle"
    /\ IF ~part.present
       THEN /\ uploads' = [uploads EXCEPT ![u] =
                  [pc |-> "done", file |-> part, origin |-> origin,
                   filename |-> Seg(""),
                   res |-> [status |-> 400, code |-> "MISSING_FILE",
                            permanentUrl |-> <<>>]]]
            /\ UNCHANGED disk
       ELSE IF part.mimetype \notin allowedMimeTypes
       THEN /\ uploads' = [uploads EXCEPT ![u] =
                  [pc |-> "done", file |-> part, origin |-> origin,
                   filename |-> Seg(""),
                   res |-> [status |-> 500, code |-> "", permanentUrl |-> <<>>]]]
            /\ UNCHANGED disk
       ELSE LET filename == StoredName(now, random, part.originalname) IN
            /\ uploads' = [uploads EXCEPT ![u] =
                  [pc |-> "writing", file |-> part, origin |-> origin,
                   filename |-> filename, res |-> NoUploadAnswer]]
            /\ disk' = OpenForWriting(disk, StorageRoot \o <<filename>>, u)
    /\ UNCHANGED <<now, spc, sreq, sres>>
    /\ UNCHANGED <<proxyVars, orchVars, fwdVars, sysVars>>

\* provider mime_type values of the media uploadMedia is called for
UploadedMimes == DOMAIN extensionMap \cup {M_octet, M_pdf, Absent}

\* steps 3 and 4 of the forwarding flow: uploadMedia(blob, mimeType, fileExtension)
\* posts the blob as `media_${Date.now()}${fileExtension}`; the Content-Type of
\* the file part is the form library's choice
UploadMediaPost(u) ==
    \E mime \in UploadedMimes, random \in 0..MaxRandom :
        LET mimeType == MimeOrDefault(mime)
            fileExtension == FileExtension(mimeType) IN
        \E mimetype \in {mimeType, M_octet} :
            UploadHandle(u,
                [present |-> TRUE,
                 originalname |-> [name |-> "media_", ts |-> now, rand |-> 0,
                                   ext |-> fileExtension],
                 mimetype |-> mimetype, type |-> mimeType],
                [by |-> "uploadMedia", mime |-> mime], random)

\* extensionMap of processMediaMessage
processExtensionMap ==
    (<<"image", "jpeg">> :> <<".", "jpg">>) @@
    (<<"image", "png">> :> <<".", "png">>) @@
    (<<"image", "gif">> :> <<".", "gif">>) @@
    (<<"image", "webp">> :> <<".", "webp">>) @@
    (<<"video", "mp4">> :> <<".", "mp4">>) @@
    (<<"video", "quicktime">> :> <<".", "mov">>) @@
    (<<"audio", "mpeg">> :> <<".", "mp3">>) @@
    (<<"audio", "ogg">> :> <<".", "ogg">>)

\* processMediaMessage: extensionMap[mimeType] || `.${mimeType.split('/')[1]}`
ProcessFileExtension(mimeType) ==
    IF mimeType \in DOMAIN processExtensionMap THEN processExtensionMap[mimeType]
    ELSE <<".", IF Len(mimeType) >= 2 THEN mimeType[2] ELSE "undefined">>

\* steps 3 and 4 of processMediaMessage: uploadMedia(blob, mimeType, fileExtension)
ProcessMediaPost(u) ==
    \E mime \in UploadedMimes, random \in 0..MaxRandom :
        LET mimeType == MimeOrDefault(mime)
            fileExtension == ProcessFileExtension(mimeType) IN
        \E mimetype \in {mimeType, M_octet} :
            UploadHandle(u,
                [present |-> TRUE,
                 originalname |-> [name |-> "media_", ts |-> now, rand |-> 0,
                                   ext |-> fileExtension],
                 mimetype |-> mimetype, type |-> mimeType],
                [by |-> "processMediaMessage", mime |-> mime], random)

\* file parts other clients of the API send
ClientParts ==
    {NoPart,
     [present |-> TRUE, originalname |-> Seg("photo"), mimetype |-> M_jpeg,
      type |-> Absent],
     [present |-> TRUE, originalname |-> [Seg("photo") EXCEPT !.ext = <<".", "JPG">>],
      mimetype |-> M_jpeg, type |-> M_jpeg]}

\* another client of the API posts to the endpoint
ClientUpload(u) ==
    \E part \in ClientParts, random \in 0..MaxRandom :
        UploadHandle(u, part, [by |-> "client", mime |-> Absent], random)

\* the file is written: the handler answers with its permanentUrl
UploadEnd(u) ==
    LET path == StorageRoot \o <<uploads[u].filename>> IN
    /\ uploads[u].pc = "writing"
    /\ disk' = IF path \in DOMAIN disk
               THEN [disk EXCEPT ![path].complete = (disk[path].data = u)]
               ELSE disk
    /\ uploads' = [uploads EXCEPT ![u].pc = "done",
                                  ![u].res = [status |-> 200, code |-> "",
                                              permanentUrl |-> path]]
    /\ UNCHANGED <<now, spc, sreq, sres>>
    /\ UNCHANGED <<proxyVars, orchVars, fwdVars, sysVars>>

\* limits.fileSize: the file part grows past 50 MB while it is written; multer
\* unlinks what it stored and passes its LIMIT_FILE_SIZE error to next(err), as
\* it does with the filter's error: the route handler and its catch block never
\* run, and errorHandler answers { error, status } with err.statusCode || 500
UploadTooLarge(u) ==
    LET path == StorageRoot \o <<uploads[u].filename>> IN
    /\ uploads[u].pc = "writing"
    /\ disk' = [p \in DOMAIN disk \ {path} |-> disk[p]]
    /\ uploads' = [uploads EXCEPT ![u].pc = "done",
                                  ![u].res = [status |-> 500, code |-> "",
                                              permanentUrl |-> <<>>]]
    /\ UNCHANGED <<now, spc, sreq, sres>>
    /\ UNCHANGED <<proxyVars, orchVars, fwdVars, sysVars>>

\* a millisecond passes
Tick ==
    /\ now < MaxClock
    /\ now' = now + 1
    /\ UNCHANGED <<uploads, disk, spc, sreq, sres>>
    /\ UNCHANGED <<proxyVars, orchVars, fwdVars, sysVars>>


(***************************************************************************)
(* The log records of the API helpers                                      *)
(*                                                                         *)
(* A logged value is a sequence whose elements are the characters of an    *)
(* identifier or a fixed piece of text.  A record keeps the values derived *)
(* from the helper's identifier argument.                                   *)
(***************************************************************************)
MaxLogCalls == 2

\* `${mediaId.substring(0, 10)}***` and `***${phoneNumber.slice(-4)}`
MaskedPrefix == 10
PhoneTail == 4
Stars == <<"*", "*", "*">>

substring(s, n) == SubSeq(s, 1, IF n < Len(s) THEN n ELSE Len(s))
sliceLast(s, n) == SubSeq(s, IF Len(s) > n THEN Len(s) - n + 1 ELSE 1, Len(s))
maskMediaId(mediaId) == substring(mediaId, MaskedPrefix) \o Stars
maskPhone(phoneNumber) == Stars \o sliceLast(phoneNumber, PhoneTail)

IsDigit(c) == c \in {"0", "1", "2", "3", "4", "5", "6", "7", "8", "9"}
\* phoneNumber.replace(/\D/g, '')
cleanPhoneNumber(phoneNumber) == SelectSeq(phoneNumber, IsDigit)

\* the positions at which needle occurs in s
Occurrences(s, needle) ==
    {i \in 1..(Len(s) - Len(needle) + 1) : SubSeq(s, i, i + Len(needle) - 1) = needle}
Contains(s, needle) == Occurrences(s, needle) # {}
\* s.replace(needle, by): the first occurrence only
Replace(s, needle, by) ==
    IF ~Contains(s, needle) THEN s
    ELSE LET i == CHOOSE j \in Occurrences(s, needle) :
                      \A k \in Occurrences(s, needle) : j <= k IN
         SubSeq(s, 1, i - 1) \o by \o SubSeq(s, i + Len(needle), Len(s))

\* media IDs of the provider and phone numbers of clients and workers
MediaIds ==
    {<<"1", "0", "9", "8", "7", "6", "5", "4", "3", "2", "1", "0">>,
     <<"4", "4", "2", "2", "0", "0", "1", "1", "9", "9", "7">>}
Phones ==
    {<<"+", "9", "1", "5", "5", "5", "0", "1", "0", "0">>,
     <<"9", "1", "5", "5", "5", "0", "1", "9", "9">>}

\* winston's npm levels; a record is written when its level is at most the
\* logger's
LevelRank == [error |-> 0, warn |-> 1, info |-> 2, debug |-> 5]
LogLevels == {"info", "debug"}
Written(records, level, function, message, values) ==
    IF LevelRank[level] <= LevelRank[logLevel]
    THEN records \cup {[level |-> level, function |-> function,
                        message |-> message, values |-> values]}
    ELSE records

LoggedFunctions ==
    {"getMediaDetails", "getClientDetails", "getWorkerDetails", "sendWhatsAppMessage"}
HelperArgs(fn) == IF fn = "getMediaDetails" THEN MediaIds ELSE Phones
NoHelperCall == [fn |-> "", arg |-> <<>>]

\* the url each helper requests
HelperUrl(fn, arg) ==
    CASE fn = "getMediaDetails" -> <<"https://graph.facebook.com/v17.0/">> \o arg
      [] fn = "getClientDetails" -> <<"API_ROOT", "/api/clients/">> \o arg
      [] fn = "getWorkerDetails" -> <<"API_ROOT", "/api/workers/">> \o arg
      [] OTHER -> <<"https://graph.facebook.com/v17.0", "WHATSAPP_PHONE_ID", "/messages">>

\* the identifier as the helper's records show it
Masked(fn, arg) ==
    IF fn = "getMediaDetails" THEN maskMediaId(arg) ELSE maskPhone(arg)

\* the values of the debug record written before the request
RequestValues(fn, arg) ==
    CASE fn = "getMediaDetails" -> {HelperUrl(fn, arg)}
      [] fn \in {"getClientDetails", "getWorkerDetails"} ->
            {Replace(HelperUrl(fn, arg), arg, maskPhone(arg))}
      [] OTHER -> {HelperUrl(fn, arg), maskPhone(cleanPhoneNumber(arg))}

\* the identifier in the records after the request: sendWhatsAppMessage shows
\* the cleaned number when the answer is not ok or ok
AfterRequestMasked(fn, arg) ==
    IF fn = "sendWhatsAppMessage" THEN maskPhone(cleanPhoneNumber(arg))
    ELSE Masked(fn, arg)

\* the message of the error fetch rejects with when the request fails on the
\* network: `request to ${url} failed, reason: ...`
FetchErrorMessage(url) == <<"request to ">> \o url \o <<" failed, reason: ">>

\* a helper is called: its 'Starting ...' record
HelperCall ==
    /\ lpc = "idle"
    /\ lcount < MaxLogCalls
    /\ \E fn \in LoggedFunctions : \E arg \in HelperArgs(fn) :
        /\ lcall' = [fn |-> fn, arg |-> arg]
        /\ log' = Written(log, "info", fn, "Starting", {Masked(fn, arg)})
    /\ lpc' = "started"
    /\ lcount' = lcount + 1
    /\ UNCHANGED logLevel
    /\ UNCHANGED <<mediaVars, workerVars, migVars>>

\* the url is built and the 'Making ... request' record written; fetch is issued
HelperRequest ==
    /\ lpc = "started"
    /\ log' = Written(log, "debug", lcall.fn, "Making request",
                      RequestValues(lcall.fn, lcall.arg))
    /\ lpc' = "fetching"
    /\ UNCHANGED <<lcall, logLevel, lcount>>
    /\ UNCHANGED <<mediaVars, workerVars, migVars>>

\* the answer is ok: the 'completed successfully' record
HelperResponseOk ==
    /\ lpc = "fetching"
    /\ log' = Written(log, "info", lcall.fn, "completed successfully",
                      {AfterRequestMasked(lcall.fn, lcall.arg)})
    /\ lpc' = "idle"
    /\ lcall' = NoHelperCall
    /\ UNCHANGED <<logLevel, lcount>>
    /\ UNCHANGED <<mediaVars, workerVars, migVars>>

\* the answer is not ok: the 'request failed' record, then the catch block's
\* record with the message of the error thrown, which names status only
HelperResponseNotOk ==
    /\ lpc = "fetching"
    /\ log' = Written(
                 Written(log, "error", lcall.fn, "request failed",
                         {AfterRequestMasked(lcall.fn, lcall.arg)}),
                 "error", lcall.fn, "failed",
                 {<<"request failed: ", "status">>, Masked(lcall.fn, lcall.arg)})
    /\ lpc' = "idle"
    /\ lcall' = NoHelperCall
    /\ UNCHANGED <<logLevel, lcount>>
    /\ UNCHANGED <<mediaVars, workerVars, migVars>>

\* fetch rejects: the catch block's record carries error.message
HelperFetchRejected ==
    /\ lpc = "fetching"
    /\ log' = Written(log, "error", lcall.fn, "failed",
                      {FetchErrorMessage(HelperUrl(lcall.fn, lcall.arg)),
                       Masked(lcall.fn, lcall.arg)})
    /\ lpc' = "idle"
    /\ lcall' = NoHelperCall
    /\ UNCHANGED <<logLevel, lcount>>
    /\ UNCHANGED <<mediaVars, workerVars, migVars>>


(***************************************************************************)
(* The worker controller: createWorker, updateWorker, deleteWorkerPhone    *)
(*                                                                         *)
(* worker_phones.phone_number is a UNIQUE KEY, so a row is named by its    *)
(* phone number.  "" is a field the request body does not carry.           *)
(***************************************************************************)
MaxWorkers == 2
MaxDeletes == 2

PhoneNumbers == {"5550001", "5550002", "5550003"}
NoWorkerAnswer == [op |-> "", status |-> 0, workerId |-> 0, phoneNumber |-> ""]
IdleDelete == [pc |-> "idle", workerId |-> 0, phoneNumber |-> "", isPrimary |-> FALSE]

PhoneRow(workerId, phone_number, is_primary) ==
    [phone_number |-> phone_number, worker_id |-> workerId, is_primary |-> is_primary]
PhonesOf(rows, workerId) == {row \in rows : row.worker_id = workerId}
PhoneExists(rows, phone_number) == \E row \in rows : row.phone_number = phone_number

\* createWorker: the rows after the request and its status.  The second INSERT
\* of a body whose two phones are equal violates unique_phone: the transaction
\* is rolled back and the answer is 500.
createWorker(rows, body, workerId) ==
    IF ~body.name \/ body.primary_phone = ""
    THEN [status |-> 400, rows |-> rows, inserted |-> FALSE]
    ELSE IF PhoneExists(rows, body.primary_phone)
    THEN [status |-> 409, rows |-> rows, inserted |-> FALSE]
    ELSE IF body.secondary_phone # "" /\ PhoneExists(rows, body.secondary_phone)
    THEN [status |-> 409, rows |-> rows, inserted |-> FALSE]
    ELSE IF body.secondary_phone = body.primary_phone
    THEN [status |-> 500, rows |-> rows, inserted |-> FALSE]
    ELSE [status |-> 201,
          rows |-> rows \cup {PhoneRow(workerId, body.primary_phone, TRUE)}
                       \cup (IF body.secondary_phone = "" THEN {}
                             ELSE {PhoneRow(workerId, body.secondary_phone, FALSE)}),
          inserted |-> TRUE]

\* the primary_phone block of updateWorker, inside the transaction
UpdatePrimary(rows, workerId, primary_phone) ==
    LET currentPrimary == {row \in PhonesOf(rows, workerId) : row.is_primary} IN
    IF currentPrimary = {} \/ \A row \in currentPrimary : row.phone_number = primary_phone
    THEN rows
    ELSE LET demoted == {IF row.worker_id = workerId
                         THEN [row EXCEPT !.is_primary = FALSE] ELSE row : row \in rows}
         IN IF \E row \in PhonesOf(demoted, workerId) : row.phone_number = primary_phone
            THEN {IF row.worker_id = workerId /\ row.phone_number = primary_phone
                  THEN [row EXCEPT !.is_primary = TRUE] ELSE row : row \in demoted}
            ELSE demoted \cup {PhoneRow(workerId, primary_phone, TRUE)}

\* the secondary_phone block of updateWorker, inside the transaction
UpdateSecondary(rows, workerId, secondary_phone) ==
    IF \E row \in PhonesOf(rows, workerId) : row.phone_number = secondary_phone
    THEN rows
    ELSE rows \cup {PhoneRow(workerId, secondary_phone, FALSE)}

OtherWorkerHas(rows, workerId, phone_number) ==
    \E row \in rows : row.phone_number = phone_number /\ row.worker_id # workerId

\* updateWorker: a 409 rolls back what the transaction did so far
updateWorker(rows, phoneNumber, body) ==
    IF ~body.name THEN [status |-> 400, rows |-> rows]
    ELSE IF ~PhoneExists(rows, phoneNumber) THEN [status |-> 404, rows |-> rows]
    ELSE LET workerId == (CHOOSE row \in rows : row.phone_number = phoneNumber).worker_id
             afterPrimary == IF body.primary_phone = "" THEN rows
                             ELSE UpdatePrimary(rows, workerId, body.primary_phone)
         IN IF body.primary_phone # "" /\ OtherWorkerHas(rows, workerId, body.primary_phone)
            THEN [status |-> 409, rows |-> rows]
            ELSE IF body.secondary_phone = ""
            THEN [status |-> 200, rows |-> afterPrimary]
            ELSE IF OtherWorkerHas(afterPrimary, workerId, body.secondary_phone)
            THEN [status |-> 409, rows |-> rows]
            ELSE [status |-> 200,
                  rows |-> UpdateSecondary(afterPrimary, workerId, body.secondary_phone)]

\* the three reads of deleteWorkerPhone before its transaction: 0 when they
\* let the request through
DeleteRefusal(ids, rows, workerId, phoneNumber) ==
    IF workerId \notin ids THEN 404
    ELSE IF PhoneRow(workerId, phoneNumber, TRUE) \notin rows
            /\ PhoneRow(workerId, phoneNumber, FALSE) \notin rows THEN 404
    ELSE IF Cardinality(PhonesOf(rows, workerId)) <= 1 THEN 400
    ELSE 0

\* Faulty variant: the deleted primary is not replaced.
DeleteTransactionNoPromotion(rows, workerId, phoneNumber, isPrimary) ==
    {rows \ {row \in rows : row.worker_id = workerId /\ row.phone_number = phoneNumber}}

\* the transaction of deleteWorkerPhone: the DELETE, and for a primary the
\* promotion of a row 'SELECT ... LIMIT 1' returns; the set of possible results
DeleteTransaction(rows, workerId, phoneNumber, isPrimary) ==
    LET deleted == rows \ {row \in rows :
                             row.worker_id = workerId /\ row.phone_number = phoneNumber}
    IN IF ~isPrimary \/ PhonesOf(deleted, workerId) = {}
       THEN {deleted}
       ELSE {{IF row = anotherPhone THEN [row EXCEPT !.is_primary = TRUE] ELSE row :
                row \in deleted} : anotherPhone \in PhonesOf(deleted, workerId)}

WorkerBodies ==
    [name : BOOLEAN, primary_phone : PhoneNumbers \cup {""},
     secondary_phone : PhoneNumbers \cup {""}]

\* POST /api/workers, run to completion
CreateWorkerRequest ==
    /\ workerSeq < MaxWorkers
    /\ \A r \in 1..MaxDeletes : wreqs[r].pc = "idle"
    /\ \E body \in WorkerBodies :
        LET done == createWorker(workerPhones, body, workerSeq + 1) IN
        /\ workerPhones' = done.rows
        /\ workers' = IF done.status = 201 THEN workers \cup {workerSeq + 1} ELSE workers
        /\ workerSeq' = IF done.status \in {201, 500} THEN workerSeq + 1 ELSE workerSeq
        /\ wres' = [op |-> "createWorker", status |-> done.status,
                    workerId |-> IF done.status = 201 THEN workerSeq + 1 ELSE 0,
                    phoneNumber |-> body.primary_phone]
    /\ UNCHANGED wreqs
    /\ UNCHANGED <<mediaVars, logVars, migVars>>

\* PUT /api/workers/:phoneNumber, run to completion
UpdateWorkerRequest ==
    /\ \A r \in 1..MaxDeletes : wreqs[r].pc = "idle"
    /\ \E phoneNumber \in PhoneNumbers, body \in WorkerBodies :
        LET done == updateWorker(workerPhones, phoneNumber, body) IN
        /\ workerPhones' = done.rows
        /\ wres' = [op |-> "updateWorker", status |-> done.status, workerId |-> 0,
                    phoneNumber |-> phoneNumber]
    /\ UNCHANGED <<workers, workerSeq, wreqs>>
    /\ UNCHANGED <<mediaVars, logVars, migVars>>

\* DELETE /api/workers/:workerId/phone/:phoneNumber, run to completion
DeleteWorkerPhoneRequest ==
    /\ \A r \in 1..MaxDeletes : wreqs[r].pc = "idle"
    /\ \E workerId \in 1..MaxWorkers, phoneNumber \in PhoneNumbers :
        LET refusal == DeleteRefusal(workers, workerPhones, workerId, phoneNumber) IN
        /\ IF refusal # 0
           THEN workerPhones' = workerPhones
           ELSE workerPhones' \in
                   DeleteTransaction(workerPhones, workerId, phoneNumber,
                       PhoneRow(workerId, phoneNumber, TRUE) \in workerPhones)
        /\ wres' = [op |-> "deleteWorkerPhone",
                    status |-> IF refusal # 0 THEN refusal ELSE 200,
                    workerId |-> workerId, phoneNumber |-> phoneNumber]
    /\ UNCHANGED <<workers, workerSeq, wreqs>>
    /\ UNCHANGED <<mediaVars, logVars, migVars>>

\* a deleteWorkerPhone request does its three reads, outside any transaction
DeleteWorkerPhoneCheck(r) ==
    /\ wreqs[r].pc = "idle"
    /\ \E workerId \in 1..MaxWorkers, phoneNumber \in PhoneNumbers :
        LET refusal == DeleteRefusal(workers, workerPhones, workerId, phoneNumber) IN
        IF refusal # 0
        THEN /\ wres' = [op |-> "deleteWorkerPhone", status |-> refusal,
                         workerId |-> workerId, phoneNumber |-> phoneNumber]
             /\ UNCHANGED wreqs
        ELSE /\ wreqs' = [wreqs EXCEPT ![r] =
                    [pc |-> "checked", workerId |-> workerId, phoneNumber |-> phoneNumber,
                     isPrimary |-> PhoneRow(workerId, phoneNumber, TRUE) \in workerPhones]]
             /\ UNCHANGED wres
    /\ UNCHANGED <<workers, workerPhones, workerSeq>>
    /\ UNCHANGED <<mediaVars, logVars, migVars>>

\* the request's transaction runs and commits, and the request is answered
DeleteWorkerPhoneCommit(r) ==
    /\ wreqs[r].pc = "checked"
    /\ workerPhones' \in DeleteTransaction(workerPhones, wreqs[r].workerId,
                                           wreqs[r].phoneNumber, wreqs[r].isPrimary)
    /\ wres' = [op |-> "deleteWorkerPhone", status |-> 200,
                workerId |-> wreqs[r].workerId, phoneNumber |-> wreqs[r].phoneNumber]
    /\ wreqs' = [wreqs EXCEPT ![r] = IdleDelete]
    /\ UNCHANGED <<workers, workerSeq>>
    /\ UNCHANGED <<mediaVars, logVars, migVars>>

(***************************************************************************)
(* The server process: startup, runMigrations and listening                *)
(*                                                                         *)
(* A file name is the sequence of its characters' codes, so that sort()    *)
(* compares names as JavaScript compares strings.                          *)
(***************************************************************************)
MaxRuns == 2
MaxServed == 1

InitialSchema == <<0, 0, 1>>
SqlFile(name) == [name |-> name, ext |-> "sql"]
\* files a deployment can put in the migrations directory
DeployedFiles ==
    {SqlFile(InitialSchema), SqlFile(<<1, 0>>), SqlFile(<<9>>),
     [name |-> <<0, 0, 0>>, ext |-> "md"]}

\* the statements migration.split(';') yields for a file
StatementsOf(name) == <<"USE", "ALTER TABLE">>
IsDatabaseStatement(stmt) == stmt \in {"CREATE DATABASE", "USE"}
IsTableStatement(stmt) == ~IsDatabaseStatement(stmt)
\* the order in which the statements of a file are executed: the database
\* statements first, the others inside the transaction
ExecutionPlan(name) ==
    SelectSeq(StatementsOf(name), IsDatabaseStatement)
    \o SelectSeq(StatementsOf(name), IsTableStatement)

\* a < b as strings
StringLess(a, b) ==
    \E k \in 1..(Len(a) + 1) :
        /\ k <= Len(b)
        /\ \A i \in 1..(k - 1) : a[i] = b[i]
        /\ (k > Len(a) \/ a[k] < b[k])

RECURSIVE sort(_)
\* Array.prototype.sort() of a set of names
sort(names) ==
    IF names = {} THEN <<>>
    ELSE LET first == CHOOSE a \in names : \A b \in names \ {a} : StringLess(a, b)
         IN <<first>> \o sort(names \ {first})

\* fs.readdirSync(migrationsDir).filter(file => file.endsWith('.sql')).sort(),
\* with the initial migration pushed when the list is empty
MigrationFiles(files) ==
    LET names == {file.name : file \in {f \in files : f.ext = "sql"}} IN
    IF names = {} THEN <<InitialSchema>> ELSE sort(names)

\* Faulty variant: recorded files are applied again.
IsPendingAlways(file, appliedMigrationNames) == TRUE

\* !appliedMigrationNames.includes(file)
IsPending(file, appliedMigrationNames) == file \notin appliedMigrationNames

\* node server.js: the start-up function calls runMigrations, which awaits a
\* connection; the script goes on to mount the routes and to call app.listen
ServerStart ==
    /\ mpc = "down"
    /\ mrun < MaxRuns
    /\ mrun' = mrun + 1
    /\ mpc' = "connecting"
    /\ listening' = TRUE
    /\ served' = 0
    /\ failedAt' = <<>>
    /\ UNCHANGED <<mfiles, applied, mnames, mlist, mpos, mstmt, executed>>
    /\ UNCHANGED <<mediaVars, logVars, workerVars>>

\* runMigrations up to its loop: the migrations table, the recorded names, the
\* sorted list of files
MigrationsRead ==
    /\ mpc = "connecting"
    /\ mnames' = {applied[i].name : i \in 1..Len(applied)}
    /\ mlist' = MigrationFiles(mfiles)
    /\ mfiles' = IF \E f \in mfiles : f.ext = "sql" THEN mfiles
                 ELSE mfiles \cup {SqlFile(InitialSchema)}
    /\ mpos' = 1
    /\ mstmt' = 0
    /\ mpc' = "running"
    /\ UNCHANGED <<mrun, applied, executed, failedAt, listening, served>>
    /\ UNCHANGED <<mediaVars, logVars, workerVars>>

\* pool.getConnection() or one of the first queries rejects
MigrationsConnectFails ==
    /\ mpc = "connecting"
    /\ mpc' = "failed"
    /\ UNCHANGED <<mrun, mfiles, applied, mnames, mlist, mpos, mstmt, executed, failedAt,
                   listening, served>>
    /\ UNCHANGED <<mediaVars, logVars, workerVars>>

\* the loop is at a file that needs no work
MigrationSkip ==
    /\ mpc = "running"
    /\ mpos <= Len(mlist)
    /\ ~IsPending(mlist[mpos], mnames)
    /\ mpos' = mpos + 1
    /\ UNCHANGED <<mpc, mrun, mfiles, applied, mnames, mlist, mstmt, executed, failedAt,
                   listening, served>>
    /\ UNCHANGED <<mediaVars, logVars, workerVars>>

\* the next statement of the file is executed
MigrationStatement ==
    /\ mpc = "running"
    /\ mpos <= Len(mlist)
    /\ IsPending(mlist[mpos], mnames)
    /\ mstmt < Len(ExecutionPlan(mlist[mpos]))
    /\ mstmt' = mstmt + 1
    /\ executed' = Append(executed, [run |-> mrun, name |-> mlist[mpos],
                                     stmt |-> mstmt + 1])
    /\ UNCHANGED <<mpc, mrun, mfiles, applied, mnames, mlist, mpos, failedAt,
                   listening, served>>
    /\ UNCHANGED <<mediaVars, logVars, workerVars>>

\* the next statement of the file is refused: rollback, and the error is
\* thrown out of runMigrations
MigrationStatementFails ==
    /\ mpc = "running"
    /\ mpos <= Len(mlist)
    /\ IsPending(mlist[mpos], mnames)
    /\ mstmt < Len(ExecutionPlan(mlist[mpos]))
    /\ failedAt' = mlist[mpos]
    /\ mpc' = "failed"
    /\ UNCHANGED <<mrun, mfiles, applied, mnames, mlist, mpos, mstmt, executed,
                   listening, served>>
    /\ UNCHANGED <<mediaVars, logVars, workerVars>>

\* every statement of the file was executed: the file is recorded and the
\* transaction committed
MigrationRecord ==
    /\ mpc = "running"
    /\ mpos <= Len(mlist)
    /\ IsPending(mlist[mpos], mnames)
    /\ mstmt = Len(ExecutionPlan(mlist[mpos]))
    /\ applied' = Append(applied, [name |-> mlist[mpos], run |-> mrun])
    /\ mpos' = mpos + 1
    /\ mstmt' = 0
    /\ UNCHANGED <<mpc, mrun, mfiles, mnames, mlist, executed, failedAt, listening, served>>
    /\ UNCHANGED <<mediaVars, logVars, workerVars>>

\* the loop is over: validateDatabaseSchema decides the outcome
MigrationsValidate ==
    /\ mpc = "running"
    /\ mpos > Len(mlist)
    /\ \E isValid \in BOOLEAN : mpc' = IF isValid THEN "finished" ELSE "failed"
    /\ UNCHANGED <<mrun, mfiles, applied, mnames, mlist, mpos, mstmt, executed, failedAt,
                   listening, served>>
    /\ UNCHANGED <<mediaVars, logVars, workerVars>>

\* the start-up function's catch: process.exit(1)
ProcessExit ==
    /\ mpc = "failed"
    /\ mpc' = "down"
    /\ listening' = FALSE
    /\ UNCHANGED <<mrun, mfiles, applied, mnames, mlist, mpos, mstmt, executed, failedAt,
                   served>>
    /\ UNCHANGED <<mediaVars, logVars, workerVars>>

\* the operator stops a server that started
ServerStop ==
    /\ mpc = "finished"
    /\ mpc' = "down"
    /\ listening' = FALSE
    /\ UNCHANGED <<mrun, mfiles, applied, mnames, mlist, mpos, mstmt, executed, failedAt,
                   served>>
    /\ UNCHANGED <<mediaVars, logVars, workerVars>>

\* a deployment adds a file to the migrations directory of a stopped server
DeployFile ==
    /\ mpc = "down"
    /\ \E file \in DeployedFiles \ mfiles : mfiles' = mfiles \cup {file}
    /\ UNCHANGED <<mpc, mrun, applied, mnames, mlist, mpos, mstmt, executed, failedAt,
                   listening, served>>
    /\ UNCHANGED <<mediaVars, logVars, workerVars>>

\* a route handles an API request that arrived on the listening socket
HandleRequest ==
    /\ listening
    /\ served < MaxServed
    /\ served' = served + 1
    /\ UNCHANGED <<mpc, mrun, mfiles, applied, mnames, mlist, mpos, mstmt, executed,
                   failedAt, listening>>
    /\ UNCHANGED <<mediaVars, logVars, workerVars>>

(***************************************************************************)
(* Specifications                                                          *)
(***************************************************************************)
\* no request is being handled and no call is running
InitMedia ==
    /\ ppc = "idle"
    /\ preq = NoRequest
    /\ resp = FreshRes
    /\ timer = "unset"
    /\ upstreamReqs = <<>>
    /\ upstream = NoUpstream
    /\ opc = "idle"
    /\ lookups = <<>>
    /\ calls = NoCalls
    /\ proxyResp = FreshRes
    /\ uploadReq = NoUpload
    /\ uploadRes = NoUploadRes
    /\ error = NoError
    /\ result = NoResult
    /\ thrown = NoError
    /\ fpc = "idle"
    /\ fargs = NoArgs
    /\ messageContent = NoContent
    /\ whatsappResult = NoSend
    /\ forwardResult = NoForwardResult
    /\ forwardThrown = NoError
    /\ now = 0
    /\ uploads = [u \in 1..MaxUploads |-> IdleUpload]
    /\ disk = InitialDisk
    /\ spc = "idle"
    /\ sreq = <<>>
    /\ sres = NoServe
    /\ lpc = "idle"
    /\ lcall = NoHelperCall
    /\ log = {}
    /\ lcount = 0
    /\ workers = {}
    /\ workerPhones = {}
    /\ workerSeq = 0
    /\ wres = NoWorkerAnswer
    /\ wreqs = [r \in 1..MaxDeletes |-> IdleDelete]
    /\ mpc = "down"
    /\ mrun = 0
    /\ mfiles = {}
    /\ applied = <<>>
    /\ mnames = {}
    /\ mlist = <<>>
    /\ mpos = 0
    /\ mstmt = 0
    /\ executed = <<>>
    /\ failedAt = <<>>
    /\ listening = FALSE
    /\ served = 0

\* the server has started on an empty messages table
Init ==
    /\ InitMedia
    /\ messages = <<>>
    /\ logLevel = "info"

\* the forwarding flow, with the proxy endpoint serving its request
Next ==
    \/ Call
    \/ LookupReturn
    \/ FetchProxiedArrive
    \/ FetchProxiedUnreachable
    \/ FetchProxiedReturn
    \/ BlobAborted
    \/ UploadReturn
    \/ FallbackReturn
    \/ Finish
    \/ UpstreamHeaders
    \/ UpstreamError
    \/ TimerFire
    \/ BodyData
    \/ BodyEnd
    \/ BodyError

Spec == Init /\ [][Next]_vars

\* the proxy endpoint, called by clients of the API
NextProxy ==
    \/ ClientRequest
    \/ UpstreamHeaders
    \/ UpstreamError
    \/ TimerFire
    \/ BodyData
    \/ BodyEnd
    \/ BodyError
    \/ ClientDone

SpecProxy == Init /\ [][NextProxy]_vars


\* the message a client sent earlier, with a media attachment
OriginalMessage ==
    [message_id |-> 1, order_id |-> "ORD1", content |-> Plain("hi"),
     media_id |-> "m1", sender_type |-> "client", forwarded_from |-> "",
     original_message_id |-> 0]

\* the messages table holds the original message
InitForward ==
    /\ InitMedia
    /\ messages = <<OriginalMessage>>
    /\ logLevel = "info"

\* one call of forwardMessage, with the forwarding flow and the proxy endpoint
\* working for it
NextForward ==
    \/ ForwardCall
    \/ ForwardMedia
    \/ LookupReturn
    \/ FetchProxiedArrive
    \/ FetchProxiedUnreachable
    \/ FetchProxiedReturn
    \/ BlobAborted
    \/ UploadReturn
    \/ FallbackReturn
    \/ UpstreamHeaders
    \/ UpstreamError
    \/ TimerFire
    \/ BodyData
    \/ BodyEnd
    \/ BodyError
    \/ ForwardMediaReturn
    \/ ForwardMediaFailed
    \/ ForwardSend
    \/ ForwardSave

SpecForward == InitForward /\ [][NextForward]_vars

\* text messages saved and forwarded, one operation after another
NextMessages ==
    \/ SaveMessage
    \/ ForwardStored
    \/ ForwardSend
    \/ ForwardSave
    \/ ForwardDone

SpecMessages == Init /\ [][NextMessages]_vars

\* the upload endpoint, with uploads running concurrently
NextUpload ==
    \/ \E u \in 1..MaxUploads : UploadMediaPost(u)
    \/ \E u \in 1..MaxUploads : ClientUpload(u)
    \/ \E u \in 1..MaxUploads : UploadEnd(u)
    \/ \E u \in 1..MaxUploads : UploadTooLarge(u)
    \/ Tick

SpecUpload == Init /\ [][NextUpload]_vars

\* the serve endpoint, with one upload to serve
NextFiles ==
    \/ UploadMediaPost(1)
    \/ ClientUpload(1)
    \/ UploadEnd(1)
    \/ Tick
    \/ ServeRequest
    \/ FileData
    \/ FileEnd
    \/ FileError
    \/ ServeDone

SpecFiles == Init /\ [][NextFiles]_vars

\* uploads of other clients running concurrently, and the serve endpoint
NextRoundTrip ==
    \/ \E u \in 1..MaxUploads : ClientUpload(u)
    \/ \E u \in 1..MaxUploads : UploadEnd(u)
    \/ Tick
    \/ ServeRequest
    \/ FileData
    \/ FileEnd
    \/ FileError
    \/ ServeDone

SpecRoundTrip == Init /\ [][NextRoundTrip]_vars

\* the two permanence pipelines storing media, and the serve endpoint
NextPipelines ==
    \/ UploadMediaPost(1)
    \/ ProcessMediaPost(1)
    \/ UploadEnd(1)
    \/ Tick
    \/ ServeRequest
    \/ FileData
    \/ FileEnd
    \/ FileError
    \/ ServeDone

SpecPipelines == Init /\ [][NextPipelines]_vars

\* the server has started with the logger at its default level or at 'debug'
InitLog ==
    /\ InitMedia
    /\ messages = <<>>
    /\ logLevel \in LogLevels

\* the API helpers and their log
NextLog ==
    \/ HelperCall
    \/ HelperRequest
    \/ HelperResponseOk
    \/ HelperResponseNotOk
    \/ HelperFetchRejected

SpecLog == InitLog /\ [][NextLog]_vars

\* the worker controller, its requests run to completion one after another
NextWorkers ==
    \/ CreateWorkerRequest
    \/ UpdateWorkerRequest
    \/ DeleteWorkerPhoneRequest

SpecWorkers == Init /\ [][NextWorkers]_vars

\* the worker controller with deleteWorkerPhone requests running concurrently
NextWorkerRace ==
    \/ CreateWorkerRequest
    \/ \E r \in 1..MaxDeletes : DeleteWorkerPhoneCheck(r)
    \/ \E r \in 1..MaxDeletes : DeleteWorkerPhoneCommit(r)

SpecWorkerRace == Init /\ [][NextWorkerRace]_vars

\* runMigrations over the restarts of the server
NextMigrations ==
    \/ ServerStart
    \/ MigrationsRead
    \/ MigrationsConnectFails
    \/ MigrationSkip
    \/ MigrationStatement
    \/ MigrationStatementFails
    \/ MigrationRecord
    \/ MigrationsValidate
    \/ ProcessExit
    \/ ServerStop
    \/ DeployFile

SpecMigrations == Init /\ [][NextMigrations]_vars

\* the server process with clients sending requests
NextStartup ==
    \/ ServerStart
    \/ MigrationsRead
    \/ MigrationsConnectFails
    \/ MigrationSkip
    \/ MigrationStatement
    \/ MigrationStatementFails
    \/ MigrationRecord
    \/ MigrationsValidate
    \/ ProcessExit
    \/ ServerStop
    \/ DeployFile
    \/ HandleRequest

SpecStartup == Init /\ [][NextStartup]_vars


(***************************************************************************)
(* Properties                                                              *)
(***************************************************************************)
\* the steps of the primary flow, by the error each throws
PrimaryErrors ==
    {Err("getMediaDetails", 1), Err("fetchProxiedMedia", 1), Err("uploadMedia", 1)}
\* the fallback getMediaDetails has settled
FallbackSettled == error # NoError /\ Len(lookups) = 2

\* the allow-list rule as the documentation states it: the hostname is one of the
\* four hosts, or some prefix of it followed by '.' and one of them
AllowListed(h) ==
    \E d \in {H_lookaside, H_scontent, H_mmg, H_pps} :
        \/ h = d
        \/ \E n \in 1..Len(h) : h[n] = "." /\ SubSeq(h, n + 1, Len(h)) = d

\* C1: fetchMediaContentForForwarding returns whenever the fallback lookup
\* succeeds, whichever primary step failed; it throws only when a primary step
\* failed and the fallback lookup failed too.
C1_ThrowsOnlyIfFallbackFails ==
    /\ opc = "thrown" =>
          /\ error \in PrimaryErrors
          /\ FallbackSettled
          /\ ~lookups[2].ok
    /\ (FallbackSettled /\ lookups[2].ok) => (opc = "returned" /\ thrown = NoError)
    /\ opc = "returned" => thrown = NoError

C1_Witness ==
    /\ opc = "returned"
    /\ error = Err("fetchProxiedMedia", 1)
    /\ lookups[2].ok

\* C2: when a primary step fails and the fallback lookup succeeds, the call
\* returns {url: the URL of the re-lookup, type: its mime_type,
\* isPermanent: false, isFallback: true}.
C2_FallbackResultShape ==
    (FallbackSettled /\ lookups[2].ok) =>
        /\ opc = "returned"
        /\ error \in PrimaryErrors
        /\ result.url = lookups[2].url
        /\ result.type = lookups[2].mime
        /\ result.isPermanent = "false"
        /\ result.isFallback = "true"

C2_Witness ==
    /\ opc = "returned"
    /\ error = Err("uploadMedia", 1)
    /\ lookups[2].url # lookups[1].url
    /\ lookups[2].mime = Absent
    /\ result.url = lookups[2].url

\* every primary step succeeded
PrimaryFlowSucceeded ==
    /\ error = NoError
    /\ Len(lookups) = 1 /\ lookups[1].ok
    /\ ResponseOk(proxyResp.status) /\ proxyResp.ended
    /\ uploadRes.ok

\* C3 (as stated): a returned result has isPermanent=true and isFallback=false,
\* with url = API_ROOT + permanentUrl, only when lookup, proxy fetch and upload all
\* succeeded; otherwise isPermanent=false and isFallback=true.
C3_Original ==
    opc = "returned" =>
        IF PrimaryFlowSucceeded
        THEN /\ result.isPermanent = "true"
             /\ result.isFallback = "false"
             /\ result.url = WithApiRoot(uploadRes.permanentUrl)
        ELSE /\ result.isPermanent = "false"
             /\ result.isFallback = "true"

\* C3 (amended): a returned result has isPermanent=true, with no isFallback field
\* (undefined, hence not true) and url = API_ROOT + permanentUrl, exactly when
\* lookup, proxy fetch and upload all succeeded; otherwise isPermanent=false and
\* isFallback=true.  Never are both true, never is neither.
C3_ExactlyOneFlag ==
    opc = "returned" =>
        /\ (result.isPermanent = "true") # (result.isFallback = "true")
        /\ IF PrimaryFlowSucceeded
           THEN /\ result.isPermanent = "true"
                /\ result.isFallback = "undefined"
                /\ uploadRes.permanentUrl.kind = "relative"
                /\ result.url.kind = "url"
                /\ result.url.host = H_api
                /\ result.url.file = uploadRes.permanentUrl.file
           ELSE /\ result.isPermanent = "false"
                /\ result.isFallback = "true"

C3_Witness ==
    /\ opc = "returned"
    /\ result.isPermanent = "true"
    /\ result.url.host = H_api
    /\ calls = [lookup |-> 1, proxy |-> 1, upload |-> 1]

\* C4: when the primary flow and the fallback lookup both fail, the error thrown
\* is the original error of the failed primary step, never the fallback's.
C4_ThrowsOriginalError ==
    opc = "thrown" =>
        /\ thrown = error
        /\ thrown \in PrimaryErrors
        /\ lookups[Len(lookups)].err = Err("getMediaDetails", Len(lookups))
        /\ thrown # lookups[Len(lookups)].err

C4_Witness ==
    /\ opc = "thrown"
    /\ thrown = Err("getMediaDetails", 1)
    /\ lookups[2].err = Err("getMediaDetails", 2)

\* the primary lookup resolved the media to a URL whose host is not allow-listed
SourceHostRejected ==
    /\ Len(lookups) >= 1
    /\ lookups[1].ok
    /\ lookups[1].url.kind = "url"
    /\ ~AllowListed(lookups[1].url.host)

\* C5: when the provider-resolved source URL has a host that is not allow-listed,
\* the flow never fetches it with the bearer credential and never returns
\* isPermanent=true: the proxy's rejection is a failure of the fetch step and
\* control goes to the fallback.
C5_RejectedHostNeverFetched ==
    SourceHostRejected =>
        /\ upstreamReqs = <<>>
        /\ upstream.kind = "none"
        /\ calls.upload = 0
        /\ result.isPermanent # "true"
        /\ preq.origin = "orchestrator" =>
              /\ ppc = "done"
              /\ resp.status = IF DecodeThrows(lookups[1].url) THEN 400 ELSE 403
        /\ opc \in {"fallback", "returned", "thrown"} =>
              error = Err("fetchProxiedMedia", 1)

C5_Witness ==
    /\ SourceHostRejected
    /\ opc = "fallback"
    /\ proxyResp.status = 403
    /\ proxyResp.code = "UNAUTHORIZED_DOMAIN"

\* C6: in one call no step is retried: the provider lookup is invoked at most
\* twice, the proxy fetch and the upload at most once each (and the proxy issues at
\* most one upstream request); the fallback lookup is invoked only after a primary
\* step has failed.
C6_NoRetry ==
    /\ calls.lookup <= 2
    /\ calls.proxy <= 1
    /\ calls.upload <= 1
    /\ Len(lookups) <= calls.lookup
    /\ Len(upstreamReqs) <= 1
    /\ calls.lookup = 2 <=> error # NoError
    /\ error # NoError => error \in PrimaryErrors

C6_Witness ==
    /\ calls = [lookup |-> 2, proxy |-> 1, upload |-> 1]
    /\ error = Err("uploadMedia", 1)
    /\ Len(lookups) = 2

\* the handler has judged a url that is present, decodes and parses
ProxyJudgedHost ==
    /\ preq.origin = "client"
    /\ preq.url.kind = "url"
    /\ ~DecodeThrows(preq.url)

\* C7: the proxy accepts a URL iff its hostname equals an allow-listed host or
\* ends with '.' + such a host; every other hostname (an allowed host as a
\* non-dot suffix, or as a prefix) is rejected with 403.
C7_DomainCheckExactOrSubdomain ==
    ProxyJudgedHost =>
        IF AllowListed(preq.url.host)
        THEN /\ resp.code # "UNAUTHORIZED_DOMAIN"
             /\ Len(upstreamReqs) = 1
             /\ upstreamReqs[1].url.host = preq.url.host
        ELSE /\ resp.code = "UNAUTHORIZED_DOMAIN"
             /\ resp.status = 403
             /\ upstreamReqs = <<>>

C7_Witness ==
    /\ preq.origin = "client"
    /\ preq.url.host = S_evil \o H_scontent
    /\ resp.code = "UNAUTHORIZED_DOMAIN"

\* C8: the endpoint answers 400 when url is omitted and 403 UNAUTHORIZED_DOMAIN
\* when its host is not allow-listed, in both cases without any upstream request:
\* an upstream fetch is issued only for a url that is present, decodes, and whose
\* host passes the allow-list.
C8_RejectBeforeUpstream ==
    /\ (preq.origin = "client" /\ preq.url.kind = "undefined") =>
          /\ resp.status = 400 /\ resp.code = "MISSING_URL_PARAMETER"
          /\ resp.ended
          /\ upstreamReqs = <<>> /\ upstream = NoUpstream
    /\ (ProxyJudgedHost /\ ~AllowListed(preq.url.host)) =>
          /\ resp.status = 403 /\ resp.code = "UNAUTHORIZED_DOMAIN"
          /\ resp.ended
          /\ upstreamReqs = <<>> /\ upstream = NoUpstream
    /\ (upstreamReqs # <<>> \/ upstream # NoUpstream) =>
          /\ preq.url.kind = "url"
          /\ ~DecodeThrows(preq.url)
          /\ AllowListed(preq.url.host)
          /\ Len(upstreamReqs) = 1
          /\ upstreamReqs[1].url = decodeURIComponent(preq.url)

C8_Witness ==
    /\ preq.origin = "client"
    /\ preq.url = Url(H_evil, "escaped")
    /\ resp.status = 403
    /\ upstreamReqs = <<>>

\* error codes of a fetch that failed to resolve the host or to connect to it
DnsOrConnectionFailure ==
    {"ENOTFOUND", "EAI_AGAIN", "ECONNREFUSED", "ECONNRESET", "ETIMEDOUT"}

\* C9: after validation every upstream outcome maps to one response: non-2xx ->
\* 502 FACEBOOK_REQUEST_FAILED with the status; timer abort -> 408
\* REQUEST_TIMEOUT; DNS/connection failure -> 502 NETWORK_ERROR; any other
\* failure -> 500 INTERNAL_SERVER_ERROR; 2xx -> 200 with the upstream Content-Type
\* and Cache-Control: public, max-age=3600.
C9_UpstreamOutcomeMapping ==
    upstreamReqs # <<>> =>
        CASE upstream.kind = "headers" /\ ~ResponseOk(upstream.status) ->
                /\ resp.status = 502 /\ resp.code = "FACEBOOK_REQUEST_FAILED"
                /\ resp.details = upstream.status
          [] upstream.kind = "abort" ->
                resp.status = 408 /\ resp.code = "REQUEST_TIMEOUT"
          [] upstream.kind = "error" /\ upstream.code \in DnsOrConnectionFailure ->
                resp.status = 502 /\ resp.code = "NETWORK_ERROR"
          [] upstream.kind = "error" /\ upstream.code \notin DnsOrConnectionFailure ->
                resp.status = 500 /\ resp.code = "INTERNAL_SERVER_ERROR"
          [] upstream.kind = "headers" /\ ResponseOk(upstream.status) ->
                /\ resp.status = 200
                /\ upstream.ctype # Absent => resp.ctype = upstream.ctype
                /\ resp.cache = "public, max-age=3600"
          [] OTHER -> TRUE

\* C10: the timer aborts the upstream request and yields 408 REQUEST_TIMEOUT only
\* when it fires before the upstream's headers are received; once they have
\* arrived the timer is cancelled, and a failure while the body streams is a
\* mid-stream error, never a 408.
C10_TimeoutOnlyBeforeHeaders ==
    /\ (resp.status = 408 \/ resp.code = "REQUEST_TIMEOUT") =>
          /\ resp.status = 408 /\ resp.code = "REQUEST_TIMEOUT"
          /\ timer = "fired"
          /\ upstream.kind = "abort"
          /\ resp.bytes = 0
    /\ upstream.kind \in {"headers", "bodyerror"} =>
          /\ timer = "cleared"
          /\ resp.status # 408
    /\ ppc \in {"streaming", "stalled"} => timer = "cleared"
    /\ upstream.kind = "bodyerror" =>
          \/ ppc = "stalled" /\ resp.status = 200 /\ resp.bytes > 0 /\ ~resp.ended
          \/ ppc = "done" /\ resp.status = 500 /\ resp.code = "STREAM_ERROR"

C10_Witness ==
    /\ upstream.kind = "bodyerror"
    /\ ppc = "stalled"
    /\ timer = "cleared"
    /\ resp.bytes = MaxChunks

\* no step of the serve handler, or of the proxy handler, is left to run
ServeHandlerOver == spc \in {"done", "stalled"}
ProxyHandlerOver == ppc \in {"done", "stalled"}

\* C11: in both streaming endpoints, a source stream that fails after streaming
\* to the client has begun gets the response terminated.  The 'error' handler is
\* the last code of the request to run, so a response that has begun must have
\* been ended by the time the handler is over, or it stays open for good.
C11_StreamErrorTerminates ==
    /\ (ServeHandlerOver /\ sres.res.headersSent) => sres.res.ended
    /\ (ProxyHandlerOver /\ resp.headersSent) => resp.ended

\* the row the running call of forwardMessage inserted
ForwardedRow == messages[Len(messages)]

C13_ComposedContentSentAndSaved ==
    /\ [][(fpc = "media" /\ opc = "returned") =>
            messageContent' =
                [text |-> fargs.message.content.text,
                 sep |-> IF fargs.message.content.text = "" THEN "" ELSE "\n\n",
                 note |-> "media",
                 type |-> IF result.type = Absent THEN <<"undefined">> ELSE result.type,
                 url |-> IF result.url = UndefinedUrl THEN TextUndefined ELSE result.url,
                 id |-> ""]]_vars
    /\ [](whatsappResult.issued => whatsappResult.text = messageContent)
    /\ [](fpc = "returned" => ForwardedRow.content = messageContent)

\* a forward with a permanent media URL after the sender's text was sent and saved
C13_Witness ==
    /\ fpc = "returned"
    /\ whatsappResult.ok
    /\ messages[2].content.text = "hi"
    /\ messages[2].content.sep = "\n\n"
    /\ messages[2].content.note = "media"
    /\ messages[2].content.type = M_jpeg
    /\ messages[2].content.url.host = H_api

\* C14: the steps of one forwardMessage call are sequential, and a failed send or
\* save is fatal: the send is issued only once the media resolution is over, a
\* row is inserted only after a successful send, a failed send ends the call with
\* a throw and no row, and a failed save ends it with a throw and no result.
C14_SequentialAndFatal ==
    /\ [](whatsappResult.issued =>
            /\ opc = "idle"
            /\ fpc \in {"save", "returned", "thrown"}
            /\ fargs.message.media_id # "" => messageContent.note # "none")
    /\ [][messages' # messages =>
            /\ fpc = "save"
            /\ whatsappResult.issued /\ whatsappResult.ok
            /\ whatsappResult' = whatsappResult]_vars
    /\ []((whatsappResult.issued /\ ~whatsappResult.ok) =>
            /\ fpc = "thrown"
            /\ forwardThrown = Err("sendWhatsAppMessage", 1)
            /\ messages = <<OriginalMessage>>)
    /\ [](forwardThrown.fn = "saveMessage" =>
            /\ fpc = "thrown"
            /\ messages = <<OriginalMessage>>)
    /\ [](fpc = "thrown" => forwardResult = NoForwardResult)
    /\ [](forwardResult.success => fpc = "returned" /\ Len(messages) = 2)

\* the send failed after the media was resolved: the call threw, nothing is saved
C14_Witness ==
    /\ fpc = "thrown"
    /\ forwardThrown.fn = "sendWhatsAppMessage"
    /\ messageContent.note = "media"
    /\ messages = <<OriginalMessage>>

\* C15: the row a successful forwardMessage creates has the target order, the
\* forwarding actor's type, the original's sender_type as forwarded_from and the
\* original's message_id as original_message_id; the result holds the original
\* message, the new message with the message_id of its row, and the send outcome.
C15_ForwardedRecordAndResult ==
    fpc = "returned" =>
        /\ ForwardedRow.message_id = Len(messages)
        /\ ForwardedRow.order_id = fargs.targetOrderId
        /\ ForwardedRow.sender_type = fargs.senderType
        /\ ForwardedRow.forwarded_from = fargs.message.sender_type
        /\ ForwardedRow.original_message_id = fargs.message.message_id
        /\ forwardResult.success
        /\ forwardResult.originalMessage = fargs.message
        /\ forwardResult.forwardedMessage =
              [message_id |-> ForwardedRow.message_id,
               order_id |-> ForwardedRow.order_id,
               content |-> ForwardedRow.content,
               sender_type |-> ForwardedRow.sender_type,
               forwarded_from |-> ForwardedRow.forwarded_from,
               original_message_id |-> ForwardedRow.original_message_id]
        /\ forwardResult.whatsappResult = whatsappResult
        /\ whatsappResult.ok

\* a worker forwarded the client's message
C15_Witness ==
    /\ fpc = "returned"
    /\ fargs.senderType = "worker"
    /\ messages[2].sender_type = "worker"
    /\ messages[2].forwarded_from = "client"
    /\ messages[2].original_message_id = 1
    /\ forwardResult.forwardedMessage.message_id = 2

\* C16: after any sequence of saveMessage and forwardMessage operations the
\* original_message_id relation is at most one hop deep: no row that has an
\* original_message_id is the original of another row.
C16_ForwardsAtMostOneHop ==
    \A i \in 1..Len(messages) :
        LET o == messages[i].original_message_id IN
        o \in 1..Len(messages) => messages[o].original_message_id = 0

\* C17: under any interleaving of concurrent uploads every write to the storage
\* root targets a filename no other upload uses: no stored file is opened for
\* writing a second time.
C17_StoredFilesNeverOverwritten ==
    \A p \in DOMAIN disk : disk[p].writes <= 1

\* the MIME types of the orchestrator's extension table
TableTypes ==
    {<<"image", "jpeg">>, <<"image", "png">>, <<"image", "gif">>, <<"image", "webp">>,
     <<"video", "mp4">>, <<"video", "quicktime">>, <<"audio", "mpeg">>,
     <<"audio", "ogg">>, <<"audio", "mp4">>}

\* the upload that wrote the file the serve request opened
ServedUpload == uploads[disk[sres.opened].data]

\* C18: a file stored by uploadMedia under the extension chosen for a MIME type
\* of the extension table is served with that MIME type as Content-Type.
C18_ExtensionContentTypeRoundTrip ==
    (/\ spc # "idle"
     /\ sres.res.status = 200
     /\ sres.opened \in StoredPaths(disk)
     /\ ServedUpload.origin.by = "uploadMedia"
     /\ ServedUpload.file.type \in TableTypes)
    => /\ sres.res.ctype = ServedUpload.file.type
       /\ sres.res.ctype = ServedUpload.origin.mime

\* a stored QuickTime video has been served in full
C18_Witness ==
    /\ spc = "done"
    /\ sres.res.status = 200
    /\ sres.res.ended
    /\ sres.opened \in StoredPaths(disk)
    /\ ServedUpload.origin.by = "uploadMedia"
    /\ ServedUpload.file.type = <<"video", "quicktime">>
    /\ extname(sreq) = <<".", "mov">>
    /\ sres.res.ctype = <<"video", "quicktime">>

\* C19: the extension chosen for a MIME type is its entry in the extension table
\* (image/jpeg -> .jpg, video/mp4 -> .mp4, audio/mpeg -> .mp3) and otherwise '.'
\* and the subtype (application/octet-stream -> .octet-stream); a missing
\* provider mime_type counts as application/octet-stream.
C19_ExtensionChoice ==
    \A u \in DOMAIN uploads :
        uploads[u].origin.by = "uploadMedia" =>
            LET mime == uploads[u].origin.mime
                mimeType == uploads[u].file.type
                ext == uploads[u].file.originalname.ext IN
            /\ mimeType = IF mime = Absent THEN <<"application", "octet-stream">> ELSE mime
            /\ mimeType = <<"image", "jpeg">> => ext = <<".", "jpg">>
            /\ mimeType = <<"video", "mp4">> => ext = <<".", "mp4">>
            /\ mimeType = <<"audio", "mpeg">> => ext = <<".", "mp3">>
            /\ mimeType = <<"application", "octet-stream">> => ext = <<".", "octet-stream">>
            /\ mimeType \in TableTypes => ext = extensionMap[mimeType]
            /\ mimeType \notin TableTypes => ext = <<".", mimeType[2]>>

\* media without a provider mime_type was posted as an .octet-stream file
C19_Witness ==
    \E u \in DOMAIN uploads :
        /\ uploads[u].origin.by = "uploadMedia"
        /\ uploads[u].origin.mime = Absent
        /\ uploads[u].file.type = M_octet
        /\ uploads[u].file.originalname.ext = <<".", "octet-stream">>
        /\ uploads[u].pc = "done"

\* C20: the serve endpoint only ever opens files inside the storage root
\* uploads/media, whatever the filename parameter, and answers 404
\* FILE_NOT_FOUND when it opens nothing.
C20_ServeStaysInStorageRoot ==
    spc # "idle" =>
        IF sres.opened = <<>>
        THEN sres.res.status = 404 /\ sres.res.code = "FILE_NOT_FOUND"
        ELSE /\ Len(sres.opened) > Len(StorageRoot)
             /\ IsPrefix(StorageRoot, sres.opened)

\* C21: an upload request without a file part is answered 400 MISSING_FILE and
\* stores nothing; the permanentUrl of an upload answered 200 names a stored
\* file, and a GET of it answered 200 in full carries the bytes that upload sent.
C21_UploadServeRoundTrip ==
    /\ \A u \in 1..MaxUploads :
          (uploads[u].pc # "idle" /\ ~uploads[u].file.present)
          => /\ uploads[u].res.status = 400
             /\ uploads[u].res.code = "MISSING_FILE"
             /\ \A p \in DOMAIN disk : disk[p].data # u
    /\ \A u \in 1..MaxUploads :
          (/\ uploads[u].pc = "done"
           /\ uploads[u].res.status = 200
           /\ spc = "done"
           /\ sres.res.status = 200
           /\ sres.res.ended
           /\ sres.opened = uploads[u].res.permanentUrl)
          => /\ disk[sres.opened].data = u
             /\ disk[sres.opened].complete

\* C22: every error response of the media endpoints (proxy, upload, serve)
\* carries a machine-readable code next to its message, the answer to an upload
\* the file-type filter or the size limit refused included.
C22_ErrorResponsesCarryCode ==
    /\ (ppc # "idle" /\ resp.status >= 400) => resp.code # ""
    /\ (spc # "idle" /\ sres.res.status >= 400) => sres.res.code # ""
    /\ \A u \in 1..MaxUploads :
          (uploads[u].pc = "done" /\ uploads[u].res.status >= 400)
          => uploads[u].res.code # ""

\* C23: no log record written by the API helpers contains a complete media ID
\* or a complete phone number: identifiers appear truncated or masked only.
C23_LogsMaskIdentifiers ==
    \A rec \in log : \A v \in rec.values :
        \A id \in MediaIds \cup Phones \cup {cleanPhoneNumber(ph) : ph \in Phones} :
            ~Contains(v, id)

\* every existing worker has at least one phone, exactly one of them primary
WorkerPhonesWellFormed ==
    \A workerId \in workers :
        /\ PhonesOf(workerPhones, workerId) # {}
        /\ Cardinality({row \in PhonesOf(workerPhones, workerId) : row.is_primary}) = 1

\* the step is a deleteWorkerPhone request answered with the given status
DeleteAnswered(status) ==
    /\ wres'.op = "deleteWorkerPhone"
    /\ wres'.status = status

\* C24: after any sequence of createWorker, updateWorker and deleteWorkerPhone
\* requests run one after another every worker has at least one phone and
\* exactly one primary; deleting a worker's only phone is answered 400 and
\* changes nothing; deleting the primary makes another phone the primary.
C24_WorkerPhoneInvariant ==
    /\ []WorkerPhonesWellFormed
    /\ [][/\ (/\ wres'.op = "deleteWorkerPhone"
              /\ PhonesOf(workerPhones, wres'.workerId) \in
                    {{PhoneRow(wres'.workerId, wres'.phoneNumber, TRUE)},
                     {PhoneRow(wres'.workerId, wres'.phoneNumber, FALSE)}}
              /\ wres'.workerId \in workers)
             => (DeleteAnswered(400) /\ workerPhones' = workerPhones)
          /\ (/\ DeleteAnswered(200)
              /\ PhoneRow(wres'.workerId, wres'.phoneNumber, TRUE) \in workerPhones)
             => /\ ~PhoneExists(workerPhones', wres'.phoneNumber)
                /\ \E row \in PhonesOf(workerPhones', wres'.workerId) :
                      /\ row.is_primary
                      /\ PhoneRow(row.worker_id, row.phone_number, FALSE) \in workerPhones
         ]_vars

\* a worker's primary phone was deleted and its other phone is now the primary
C24_Witness ==
    /\ wres.op = "deleteWorkerPhone"
    /\ wres.status = 200
    /\ wres.workerId \in workers
    /\ ~PhoneExists(workerPhones, wres.phoneNumber)
    /\ \E row \in PhonesOf(workerPhones, wres.workerId) : row.is_primary
    /\ workerSeq = MaxWorkers

\* C29: under any interleaving of concurrent deleteWorkerPhone requests on one
\* worker the worker never ends with no phone or with no primary phone.
C29_ConcurrentDeletesKeepAPhone ==
    (\A r \in 1..MaxDeletes : wreqs[r].pc = "idle")
    => \A workerId \in workers :
          \E row \in PhonesOf(workerPhones, workerId) : row.is_primary

\* C25: across restarts runMigrations applies the pending files in ascending
\* filename order; a recorded file is recorded once and none of its statements
\* is executed in a later run; a file is recorded only in a run that executed
\* all its statements; after a failing migration no later file is applied and
\* the run reports failure.
C25_MigrationsOrderedOnceAtomic ==
    /\ \A i, j \in 1..Len(executed) :
          (i < j /\ executed[i].run = executed[j].run)
          => \/ StringLess(executed[i].name, executed[j].name)
             \/ (executed[i].name = executed[j].name /\ executed[i].stmt < executed[j].stmt)
    /\ \A i, j \in 1..Len(applied) : applied[i].name = applied[j].name => i = j
    /\ \A i \in 1..Len(applied) :
          /\ \A k \in 1..Len(executed) :
                executed[k].name = applied[i].name => executed[k].run <= applied[i].run
          /\ \A n \in 1..Len(ExecutionPlan(applied[i].name)) :
                \E k \in 1..Len(executed) :
                    executed[k] = [run |-> applied[i].run, name |-> applied[i].name,
                                   stmt |-> n]
    /\ failedAt # <<>>
       => /\ mpc \in {"failed", "down"}
          /\ \A k \in 1..Len(executed) :
                executed[k].run = mrun => ~StringLess(failedAt, executed[k].name)
          /\ \A i \in 1..Len(applied) : applied[i].run = mrun => applied[i].name # failedAt

\* a second run skipped the file the first run recorded, applied a file deployed
\* since, and failed at the one after it
C25_Witness ==
    /\ mrun = 2
    /\ mpc = "down"
    /\ Len(applied) = 2
    /\ applied[1] = [name |-> InitialSchema, run |-> 1]
    /\ applied[2] = [name |-> <<1, 0>>, run |-> 2]
    /\ failedAt = <<9>>
    /\ \E k \in 1..Len(executed) : executed[k].run = 2 /\ executed[k].name = <<9>>

\* C30: the server never handles an API request before runMigrations and the
\* schema validation completed successfully in this process.
C30_NoRequestBeforeMigrations ==
    served > 0 => mpc = "finished"

\* C26: a url parameter that decodes but is not a parseable absolute URL is
\* rejected as bad input with a 4xx status, and no upstream request is made.
C26_UnparseableUrlIsClientError ==
    (/\ ppc # "idle"
     /\ preq.origin = "client"
     /\ preq.url.kind = "text"
     /\ ~DecodeThrows(preq.url))
    => /\ resp.status >= 400
       /\ resp.status < 500
       /\ upstreamReqs = <<>>

\* C27: every url fetchMediaContentForForwarding returns is under API_ROOT or
\* has an allow-listed media host: a source url the domain validation rejected
\* is never handed back as the fallback url.
C27_ReturnedUrlIsTrusted ==
    (opc = "returned" /\ result.url.kind = "url")
    => \/ result.url.host = H_api
       \/ AllowListed(result.url.host)

\* C28: for every MIME type the upload filter accepts both pipelines
\* (processMediaMessage and fetchMediaContentForForwarding) choose the same
\* extension, and the file either of them stored is served with the original
\* MIME type as Content-Type.
C28_PipelinesAgreeOnExtension ==
    /\ \A u \in 1..MaxUploads :
          (/\ uploads[u].origin.by \in {"uploadMedia", "processMediaMessage"}
           /\ uploads[u].file.type \in allowedMimeTypes)
          => /\ uploads[u].file.originalname.ext = FileExtension(uploads[u].file.type)
             /\ uploads[u].file.originalname.ext
                   = ProcessFileExtension(uploads[u].file.type)
    /\ (/\ spc # "idle"
        /\ sres.res.status = 200
        /\ sres.opened \in StoredPaths(disk)
        /\ ServedUpload.origin.by \in {"uploadMedia", "processMediaMessage"}
        /\ ServedUpload.file.type \in allowedMimeTypes)
       => sres.res.ctype = ServedUpload.file.type

====
